---- MODULE Spec2Model ----
(***************************************************************************)
(* Model of packages/nocodb/src/models/Model.ts: the table-metadata        *)
(* aggregate (Model) over the persisted MetadataStore (ncMeta) and the     *)
(* NocoCache key/list cache, with its cascading delete, its narrow         *)
(* updates, its primary-value column switch and its alias mapping.         *)
(*                                                                         *)
(* The world is the pair (store, cache).  Handlers are operators from a    *)
(* world to a world (and a return value); actions apply them.  Handlers    *)
(* whose intermediate states matter (delete, updatePrimaryColumn) are      *)
(* stepped at their await points through the variable call.                *)
(***************************************************************************)
EXTENDS Integers, Sequences, FiniteSets, TLC

VARIABLES
  store,    \* MetadataStore tables
  cache,    \* NocoCache keys and lists
  call,     \* the handler in flight (its position and locals), or idle
  ret,      \* what the last finished handler returned or raised
  hist,     \* history: snapshots taken at handler boundaries
  env       \* what the deployment fixes: dialect, server time zone, row inputs

vars == <<store, cache, call, ret, hist, env>>

----------------------------------------------------------------------------
(* Values *)

Null == "null"
NoOrder == -1
NoRow == [id |-> Null]

ModelIds == {"m1", "m2", "m3"}
ColIds == {"c1", "c2", "c3", "c4"}
ViewIds == {"v1", "v2"}
P1 == "p1"
B1 == "b1"
B2 == "b2"

\* bounds of the model
MaxOrder == 2
MaxFails == 1
MaxRuns == 2
MaxClock == 1
MaxTz == 1

Orders == 0..MaxOrder

\* column kinds (UITypes) the handlers branch on
TextT == "SingleLineText"
LinkT == "LinkToAnotherRecord"
FkT == "ForeignKey"
FormulaT == "Formula"
DateTimeT == "DateTime"
AttachmentT == "Attachment"

Range(f) == {f[x] : x \in DOMAIN f}

RECURSIVE FilterSeq(_, _)
FilterSeq(s, keep) ==
  IF s = <<>> THEN <<>>
  ELSE (IF Head(s) \in keep THEN <<Head(s)>> ELSE <<>>) \o FilterSeq(Tail(s), keep)

----------------------------------------------------------------------------
(* MetadataStore (ncMeta): rows by id; phys is the physical row order an   *)
(* unordered query returns; nullsFirst is the dialect's place for NULL in  *)
(* ORDER BY ... ASC.                                                        *)

ModelRow(id, base, title, tname, order) ==
  [id |-> id, project_id |-> P1, base_id |-> base, title |-> title,
   table_name |-> tname, order |-> order, mm |-> FALSE, meta |-> "{}"]

ColRow(id, m, title, cname, uidt, pk, pv) ==
  [id |-> id, fk_model_id |-> m, title |-> title, column_name |-> cname,
   uidt |-> uidt, pk |-> pk, pv |-> pv]

\* parseMetaProp: the serialized blob to its structured form
parseMetaProp(blob) ==
  CASE blob = "{}" -> "obj()"
    [] blob = "{a:1}" -> "obj(a=1)"
    [] OTHER -> blob

ParseRow(row) == [row EXCEPT !.meta = parseMetaProp(row.meta)]

\* metaGet2(null, null, MODELS, id)
metaGet2(w, id) == IF id \in ModelIds THEN w.st.models[id] ELSE NoRow

\* rows of MODELS under (project, base), in physical order
ScopeIds(w, p, b) ==
  {id \in ModelIds : /\ w.st.models[id] # NoRow
                     /\ w.st.models[id].project_id = p
                     /\ w.st.models[id].base_id = b}

\* ORDER BY "order" ASC as the database does it: NULLs first or last by
\* dialect, ties in physical order
RECURSIVE DbInsert(_, _, _)
DbInsert(sorted, row, nullsFirst) ==
  LET key(r) == IF r.order = NoOrder
                THEN (IF nullsFirst THEN -1 ELSE MaxOrder + 2)
                ELSE r.order
  IN IF sorted = <<>> THEN <<row>>
     ELSE IF key(Head(sorted)) <= key(row)
          THEN <<Head(sorted)>> \o DbInsert(Tail(sorted), row, nullsFirst)
          ELSE <<row>> \o sorted

RECURSIVE DbOrderBy(_, _)
DbOrderBy(rows, nullsFirst) ==
  IF rows = <<>> THEN <<>>
  ELSE DbInsert(DbOrderBy(SubSeq(rows, 1, Len(rows) - 1), nullsFirst),
                rows[Len(rows)], nullsFirst)

\* metaList2(project, base, MODELS, {orderBy?})
metaList2(w, p, b, ordered) ==
  LET ids == FilterSeq(w.st.phys, ScopeIds(w, p, b))
      rows == [i \in 1..Len(ids) |-> w.st.models[ids[i]]]
  IN IF ordered THEN DbOrderBy(rows, w.st.nullsFirst) ELSE rows

----------------------------------------------------------------------------
(* NocoCache.  A list holds member keys and resolves them through the      *)
(* id-keyed object entries; known distinguishes "cached, confirmed empty"  *)
(* from "not cached".                                                      *)

NotCached == [known |-> FALSE, items |-> <<>>]
Scopes == {<<P1, B1>>, <<P1, B2>>, <<P1>>}

cacheGet(w, id) == IF id \in ModelIds THEN w.ca.obj[id] ELSE NoRow

cacheSet(w, id, o) == [w EXCEPT !.ca.obj[id] = o]

getList(w, scope) ==
  LET l == w.ca.list[scope]
  IN [list |-> [i \in 1..Len(l.items) |-> w.ca.obj[l.items[i]]],
      isNoneList |-> l.known /\ l.items = <<>>]

setList(w, scope, rows) ==
  [w EXCEPT
     !.ca.obj = [id \in ModelIds |->
                   IF \E i \in 1..Len(rows) : rows[i].id = id
                   THEN rows[CHOOSE i \in 1..Len(rows) : rows[i].id = id]
                   ELSE @[id]],
     !.ca.list[scope] = [known |-> TRUE,
                         items |-> [i \in 1..Len(rows) |-> rows[i].id]]]

\* deepDel(MODEL, MODEL:id, CHILD_TO_PARENT): the key leaves every list of
\* the scope, then the key itself is evicted
deepDelModel(w, id) ==
  [w EXCEPT
     !.ca.list = [s \in Scopes |->
                    LET l == @[s]
                        left == FilterSeq(l.items, ModelIds \ {id})
                    IN IF l.items = <<>> \/ left = l.items THEN l
                       ELSE IF left = <<>> THEN NotCached
                       ELSE [l EXCEPT !.items = left]],
     !.ca.obj[id] = NoRow]

----------------------------------------------------------------------------
(* Model.get, Model.list, Model.listWithInfo *)

Get(w, id) ==
  LET cached == cacheGet(w, id)
      row == metaGet2(w, id)
  IN IF cached # NoRow THEN [w |-> w, ret |-> cached]
     ELSE IF row # NoRow
          THEN [w |-> cacheSet(w, id, ParseRow(row)), ret |-> ParseRow(row)]
          ELSE [w |-> w, ret |-> NoRow]

\* the comparator of list's sort: (a.order ?? Infinity) - (b.order ?? Infinity);
\* Infinity - Infinity is NaN, which sort reads as 0
SortCompare(a, b) ==
  IF a.order = NoOrder /\ b.order = NoOrder THEN 0
  ELSE IF a.order = NoOrder THEN 1
  ELSE IF b.order = NoOrder THEN -1
  ELSE a.order - b.order

\* Array.prototype.sort: stable
RECURSIVE SortInsert(_, _)
SortInsert(sorted, x) ==
  IF sorted = <<>> THEN <<x>>
  ELSE IF SortCompare(Head(sorted), x) <= 0
       THEN <<Head(sorted)>> \o SortInsert(Tail(sorted), x)
       ELSE <<x>> \o sorted

RECURSIVE ArraySort(_)
ArraySort(s) ==
  IF s = <<>> THEN <<>>
  ELSE SortInsert(ArraySort(SubSeq(s, 1, Len(s) - 1)), s[Len(s)])

ParseRows(rows) == [i \in 1..Len(rows) |-> ParseRow(rows[i])]

\* mutant: the known-empty marker is not looked at
List_ignoresMarker(w, p, b) ==
  LET cachedList == getList(w, <<p, b>>)
      miss == cachedList.list = <<>>
      fetched == ParseRows(metaList2(w, p, b, TRUE))
      modelList == IF miss THEN fetched ELSE cachedList.list
      \* a member key whose object is gone resolves to null, and the
      \* comparator's a.order on it is a TypeError
      broken == Len(modelList) > 1 /\ \E i \in 1..Len(modelList) : modelList[i] = NoRow
  IN [w |-> IF miss THEN setList(w, <<p, b>>, fetched) ELSE w,
      retrieved |-> modelList,
      ret |-> IF broken THEN <<>> ELSE ArraySort(modelList),
      raised |-> IF broken THEN "TypeError" ELSE Null,
      queried |-> miss]

List(w, p, b) ==
  LET cachedList == getList(w, <<p, b>>)
      miss == ~cachedList.isNoneList /\ cachedList.list = <<>>
      fetched == ParseRows(metaList2(w, p, b, TRUE))
      modelList == IF miss THEN fetched ELSE cachedList.list
      \* a member key whose object is gone resolves to null, and the
      \* comparator's a.order on it is a TypeError
      broken == Len(modelList) > 1 /\ \E i \in 1..Len(modelList) : modelList[i] = NoRow
  IN [w |-> IF miss THEN setList(w, <<p, b>>, fetched) ELSE w,
      retrieved |-> modelList,
      ret |-> IF broken THEN <<>> ELSE ArraySort(modelList),
      raised |-> IF broken THEN "TypeError" ELSE Null,
      queried |-> miss]

ListWithInfo(w, p, b) ==
  LET cachedList == getList(w, <<p, b>>)
      miss == ~cachedList.isNoneList /\ cachedList.list = <<>>
      fetched == ParseRows(metaList2(w, p, b, FALSE))
      modelList == IF miss THEN fetched ELSE cachedList.list
  IN [w |-> IF miss THEN setList(w, <<p>>, fetched) ELSE w,
      retrieved |-> modelList,
      ret |-> modelList,
      queried |-> miss]

----------------------------------------------------------------------------
(* Column, View and Audit collaborators, as Model.ts calls them *)

ColSeq == <<"c1", "c2", "c3", "c4">>
ViewSeq == <<"v1", "v2">>

\* the side-options table and cache scope of a column kind (switch of delete)
OptionTable(uidt) ==
  CASE uidt \in {FkT, LinkT} -> "col_relations"
    [] uidt = FormulaT -> "col_formula"
    [] OTHER -> Null

\* isVirtualCol of nocodb-sdk: computed kinds hold no physical column
isVirtualCol(col) == col.uidt \in {LinkT, FormulaT}

ModelColIds(w, m) ==
  {c \in ColIds : w.st.columns[c] # NoRow /\ w.st.columns[c].fk_model_id = m}

\* Column.list({fk_model_id}): read-through over the column list cache
ColumnList(w, m) ==
  LET l == w.ca.colList[m]
      miss == ~l.known /\ l.items = <<>>
      ids == FilterSeq(ColSeq, ModelColIds(w, m))
      filled == [w EXCEPT
                   !.ca.col = [c \in ColIds |->
                                 IF c \in Range(ids) THEN w.st.columns[c] ELSE @[c]],
                   !.ca.colList[m] = [known |-> TRUE, items |-> ids]]
      w2 == IF miss THEN filled ELSE w
      items == w2.ca.colList[m].items
  IN [w |-> w2, ret |-> [i \in 1..Len(items) |-> w2.ca.col[items[i]]]]

\* Model.getColumns: this.columns = await Column.list({fk_model_id: this.id})
getColumns(w, m) == ColumnList(w, m)

\* View.listWithInfo(modelId): the Views bound to the Model
getViews(w, m) == FilterSeq(ViewSeq, {v \in ViewIds : w.st.views[v] = m})

\* view.delete()
viewDelete(w, v) == [w EXCEPT !.st.views[v] = Null]

\* Audit.deleteRowComments(modelId)
deleteRowComments(w, m) == [w EXCEPT !.st.audits = @ \ {m}]

\* the side-options read path of a column: caches the row under scope:colId
LoadColOptions(w, c) ==
  IF w.st.side[c] # NoRow THEN [w EXCEPT !.ca.opt = @ \cup {c}] ELSE w

----------------------------------------------------------------------------
(* Model.getWithInfo({id}) *)

GetWithInfo(w, id) ==
  LET cached == cacheGet(w, id)
      row == metaGet2(w, id)
  IN IF cached = NoRow /\ row = NoRow
     THEN [w |-> w, ret |-> NoRow, columns |-> <<>>, raised |-> "TypeError"]
     ELSE LET w1 == IF cached = NoRow THEN cacheSet(w, id, ParseRow(row)) ELSE w
              cl == getColumns(w1, id)
          IN [w |-> cl.w, ret |-> cacheGet(w1, id), columns |-> cl.ret,
              raised |-> Null]

----------------------------------------------------------------------------
(* Model.getByAliasOrId({project_id, base_id?, aliasOrId}) *)

AliasKey(p, b, a) == IF b # Null THEN <<p, b, a>> ELSE <<p, a>>

\* metaGet2(MODELS, {project_id, base_id?}, _or: [id = a, title = a]): the
\* first matching row in physical order
AliasLookup(w, p, b, a) ==
  LET hits == {id \in ModelIds :
                 /\ w.st.models[id] # NoRow
                 /\ w.st.models[id].project_id = p
                 /\ (b = Null \/ w.st.models[id].base_id = b)
                 /\ (id = a \/ w.st.models[id].title = a)}
      ids == FilterSeq(w.st.phys, hits)
  IN IF ids = <<>> THEN NoRow ELSE w.st.models[Head(ids)]

GetByAliasOrId(w, p, b, a) ==
  LET cacheKey == AliasKey(p, b, a)
      modelId == IF cacheKey \in DOMAIN w.ca.alias THEN w.ca.alias[cacheKey] ELSE Null
      model == AliasLookup(w, p, b, a)
  IN IF modelId = Null
     THEN IF model # NoRow
          THEN [w |-> cacheSet([w EXCEPT !.ca.alias =
                                  [k \in DOMAIN @ \cup {cacheKey} |->
                                     IF k = cacheKey THEN model.id ELSE @[k]]],
                               model.id, model),
                ret |-> model]
          ELSE [w |-> w, ret |-> NoRow]
     ELSE Get(w, modelId)

\* NocoCache.del(key) of an alias indirection key
aliasDel(w, key) ==
  [w EXCEPT !.ca.alias = [k \in DOMAIN @ \ {key} |-> @[k]]]

----------------------------------------------------------------------------
(* Model.delete(ncMeta, force), one step per await.  c is the call record:  *)
(* inst is the Model instance delete runs on (this.id, this.project_id,    *)
(* this.title), views/cols/left are the loops' remaining elements.         *)

Idle == [op |-> "idle"]

InstOf(row) == [id |-> row.id, project_id |-> row.project_id, title |-> row.title]

DeleteCall(inst, force) ==
  [op |-> "delete", pc |-> "audit", inst |-> inst, force |-> force,
   views |-> <<>>, cols |-> <<>>, left |-> <<>>]

\* metaDelete(colOptionTableName, {fk_column_id: col.id})
DeleteColOptionRows(w, col) ==
  IF w.st.side[col.id] # NoRow /\ w.st.side[col.id].table = OptionTable(col.uidt)
  THEN [w EXCEPT !.st.side[col.id] = NoRow]
  ELSE w

\* mutant: the Model row goes with the first side-options eviction, ahead of
\* the Column rows
DeleteColOptionCache_modelRowFirst(w, col) ==
  [w EXCEPT !.ca.opt = @ \ {col.id}, !.st.models[col.fk_model_id] = NoRow]

\* deepDel(cacheScopeName, scope:col.id, CHILD_TO_PARENT)
DeleteColOptionCache(w, col) == [w EXCEPT !.ca.opt = @ \ {col.id}]

\* metaList2(COL_RELATIONS, {condition: {fk_related_model_id: this.id}})
LeftOverColumns(w, inst) ==
  FilterSeq(ColSeq, {c \in ColIds : /\ w.st.side[c] # NoRow
                                    /\ w.st.side[c].table = "col_relations"
                                    /\ w.st.side[c].rel = inst.id})

\* deepDel(COL_RELATION, COL_RELATION:col.fk_column_id, CHILD_TO_PARENT)
DeleteLeftOverCache(w, cid) == [w EXCEPT !.ca.opt = @ \ {cid}]

\* mutant: the rows are matched by the Model that owns the column
DeleteRelatedRows_ownColumns(w, inst) ==
  [w EXCEPT !.st.side = [c \in ColIds |->
                           IF c \in ModelColIds(w, inst.id) THEN NoRow ELSE @[c]]]

\* metaDelete(COL_RELATIONS, {fk_related_model_id: this.id})
DeleteRelatedRows(w, inst) ==
  [w EXCEPT !.st.side = [c \in ColIds |->
                           IF c \in Range(LeftOverColumns(w, inst)) THEN NoRow ELSE @[c]]]

\* mutant: the eviction is skipped when the store holds no column row of the Model
DeleteColumnCache_ifRows(w, inst) ==
  IF ModelColIds(w, inst.id) = {} THEN w
  ELSE [w EXCEPT
          !.ca.col = [c \in ColIds |->
                        IF @[c] # NoRow /\ @[c].fk_model_id = inst.id THEN NoRow ELSE @[c]],
          !.ca.colList[inst.id] = NotCached]

\* deepDel(COLUMN, COLUMN:this.id, CHILD_TO_PARENT)
DeleteColumnCache(w, inst) ==
  [w EXCEPT
     !.ca.col = [c \in ColIds |->
                   IF @[c] # NoRow /\ @[c].fk_model_id = inst.id THEN NoRow ELSE @[c]],
     !.ca.colList[inst.id] = NotCached]

\* metaDelete(COLUMNS, {fk_model_id: this.id})
DeleteColumnRows(w, inst) ==
  [w EXCEPT !.st.columns = [c \in ColIds |->
                              IF c \in ModelColIds(w, inst.id) THEN NoRow ELSE @[c]]]

\* deepDel(MODEL, MODEL:this.id, CHILD_TO_PARENT)
DeleteModelCache(w, inst) == deepDelModel(w, inst.id)

\* mutant: the row is matched by title instead of id
DeleteModelRow_byTitle(w, inst) ==
  [w EXCEPT !.st.models = [id \in ModelIds |-> IF id = inst.title THEN NoRow ELSE @[id]]]

\* metaDelete(MODELS, this.id)
DeleteModelRow(w, inst) == [w EXCEPT !.st.models[inst.id] = NoRow]

\* del(MODEL:project_id:id), del(MODEL:project_id:title)
DeleteAliasId(w, inst) == aliasDel(w, <<inst.project_id, inst.id>>)
DeleteAliasTitle(w, inst) == aliasDel(w, <<inst.project_id, inst.title>>)

DeleteStep(w, c) ==
  CASE c.pc = "audit" ->
         [w |-> deleteRowComments(w, c.inst.id), c |-> [c EXCEPT !.pc = "getViews"]]
    [] c.pc = "getViews" ->
         [w |-> w, c |-> [c EXCEPT !.pc = "views", !.views = getViews(w, c.inst.id)]]
    [] c.pc = "views" ->
         IF c.views = <<>> THEN [w |-> w, c |-> [c EXCEPT !.pc = "getColumns"]]
         ELSE [w |-> viewDelete(w, Head(c.views)), c |-> [c EXCEPT !.views = Tail(@)]]
    [] c.pc = "getColumns" ->
         LET cl == getColumns(w, c.inst.id)
         IN [w |-> cl.w, c |-> [c EXCEPT !.pc = "colOptRows", !.cols = cl.ret]]
    [] c.pc = "colOptRows" ->
         IF c.cols = <<>> THEN [w |-> w, c |-> [c EXCEPT !.pc = "force"]]
         ELSE IF OptionTable(Head(c.cols).uidt) = Null
              THEN [w |-> w, c |-> [c EXCEPT !.cols = Tail(@)]]
              ELSE [w |-> DeleteColOptionRows(w, Head(c.cols)),
                    c |-> [c EXCEPT !.pc = "colOptCache"]]
    [] c.pc = "colOptCache" ->
         [w |-> DeleteColOptionCache(w, Head(c.cols)),
          c |-> [c EXCEPT !.pc = "colOptRows", !.cols = Tail(@)]]
    [] c.pc = "force" ->
         IF c.force
         THEN [w |-> w, c |-> [c EXCEPT !.pc = "forceCache",
                                        !.left = LeftOverColumns(w, c.inst)]]
         ELSE [w |-> w, c |-> [c EXCEPT !.pc = "colCache"]]
    [] c.pc = "forceCache" ->
         IF c.left = <<>> THEN [w |-> w, c |-> [c EXCEPT !.pc = "forceRows"]]
         ELSE [w |-> DeleteLeftOverCache(w, Head(c.left)),
               c |-> [c EXCEPT !.left = Tail(@)]]
    [] c.pc = "forceRows" ->
         [w |-> DeleteRelatedRows(w, c.inst), c |-> [c EXCEPT !.pc = "colCache"]]
    [] c.pc = "colCache" ->
         [w |-> DeleteColumnCache(w, c.inst), c |-> [c EXCEPT !.pc = "colRows"]]
    [] c.pc = "colRows" ->
         [w |-> DeleteColumnRows(w, c.inst), c |-> [c EXCEPT !.pc = "modelCache"]]
    [] c.pc = "modelCache" ->
         [w |-> DeleteModelCache(w, c.inst), c |-> [c EXCEPT !.pc = "modelRow"]]
    [] c.pc = "modelRow" ->
         [w |-> DeleteModelRow(w, c.inst), c |-> [c EXCEPT !.pc = "aliasId"]]
    [] c.pc = "aliasId" ->
         [w |-> DeleteAliasId(w, c.inst), c |-> [c EXCEPT !.pc = "aliasTitle"]]
    [] c.pc = "aliasTitle" ->
         [w |-> DeleteAliasTitle(w, c.inst), c |-> [c EXCEPT !.pc = "done"]]

\* delete run from c to its return without interruption
RECURSIVE DeleteRun(_, _)
DeleteRun(w, c) ==
  IF c.pc = "done" THEN w
  ELSE LET n == DeleteStep(w, c) IN DeleteRun(n.w, n.c)

\* what delete hands its caller: true on return, the error when a call fails
DeleteReturn(c) == [op |-> "delete", arg |-> c.inst.id, val |-> TRUE, raised |-> Null]
\* mutant: the error is caught and delete reports success
DeleteRaise_swallowed(c) == DeleteReturn(c)

DeleteRaise(c) == [op |-> "delete", arg |-> c.inst.id, val |-> FALSE, raised |-> "IOError"]

----------------------------------------------------------------------------
(* The world of the variables, and the states handlers start from *)

World == [st |-> store, ca |-> cache]

SetWorld(w) == store' = w.st /\ cache' = w.ca

EmptyCache ==
  [obj |-> [id \in ModelIds |-> NoRow],
   list |-> [s \in Scopes |-> NotCached],
   alias |-> [k \in {} |-> Null],
   col |-> [c \in ColIds |-> NoRow],
   colList |-> [m \in ModelIds |-> NotCached],
   opt |-> {}]

NoEnv == [kind |-> "none"]

Target == "m1"

\* two Models of one base; m1 holds a plain column and a link to m2, m2 a
\* link back to m1 and a formula; one View and row comments each
DeleteStore(nullsFirst) ==
  [models |-> [id \in ModelIds |->
                 CASE id = "m1" -> ModelRow("m1", B1, "t1", "n1", 1)
                   [] id = "m2" -> ModelRow("m2", B1, "t2", "n2", 2)
                   [] OTHER -> NoRow],
   columns |-> [c \in ColIds |->
                  CASE c = "c1" -> ColRow("c1", "m1", "a", "a", TextT, TRUE, FALSE)
                    [] c = "c2" -> ColRow("c2", "m1", "b", "b", LinkT, FALSE, FALSE)
                    [] c = "c3" -> ColRow("c3", "m2", "a", "a", LinkT, FALSE, FALSE)
                    [] OTHER -> ColRow("c4", "m2", "b", "b", FormulaT, FALSE, FALSE)],
   side |-> [c \in ColIds |->
               CASE c = "c2" -> [id |-> "c2", table |-> "col_relations", rel |-> "m2"]
                 [] c = "c3" -> [id |-> "c3", table |-> "col_relations", rel |-> "m1"]
                 [] c = "c4" -> [id |-> "c4", table |-> "col_formula", rel |-> Null]
                 [] OTHER -> NoRow],
   views |-> [v \in ViewIds |-> IF v = "v1" THEN "m1" ELSE "m2"],
   audits |-> {"m1", "m2"},
   phys |-> <<"m1", "m2", "m3">>,
   nullsFirst |-> nullsFirst]

----------------------------------------------------------------------------
(* Specification SpecDelete: reads and one Model's delete, with I/O        *)
(* failures and re-runs on the same instance.                              *)

\* history of the delete under watch
NoDeleteHist ==
  [runs |-> 0, fails |-> 0, clean |-> TRUE, sameForce |-> TRUE, force |-> FALSE,
   inst |-> NoRow, expect |-> NoRow, first |-> NoRow,
   preObj |-> FALSE, preList |-> FALSE, preOpt |-> {}, failPc |-> Null]

\* another handler ran since the watched delete first began
Touch(h) ==
  IF h.inst = NoRow THEN h
  ELSE [h EXCEPT !.clean = FALSE, !.expect = NoRow, !.first = NoRow, !.failPc = Null]

InitDelete ==
  /\ store = DeleteStore(FALSE)
  /\ cache = EmptyCache
  /\ call = Idle
  /\ ret = [op |-> "none", arg |-> Null, val |-> FALSE, raised |-> Null]
  /\ hist = NoDeleteHist
  /\ env = NoEnv

DGet(id) ==
  /\ call = Idle
  /\ LET r == Get(World, id)
     IN /\ SetWorld(r.w)
        /\ ret' = [op |-> "get", arg |-> id, val |-> r.ret, raised |-> Null]
  /\ hist' = Touch(hist)
  /\ UNCHANGED <<call, env>>

DList(p, b) ==
  /\ call = Idle
  /\ LET r == List(World, p, b)
     IN /\ SetWorld(r.w)
        /\ ret' = [op |-> "list", arg |-> <<p, b>>, val |-> r.ret, raised |-> r.raised]
  /\ hist' = Touch(hist)
  /\ UNCHANGED <<call, env>>

DGetByAliasOrId(p, b, a) ==
  /\ call = Idle
  /\ LET r == GetByAliasOrId(World, p, b, a)
     IN /\ SetWorld(r.w)
        /\ ret' = [op |-> "getByAliasOrId", arg |-> <<p, b, a>>, val |-> r.ret,
                   raised |-> Null]
  /\ hist' = Touch(hist)
  /\ UNCHANGED <<call, env>>

DLoadColOptions(c) ==
  /\ call = Idle
  /\ LoadColOptions(World, c) # World
  /\ SetWorld(LoadColOptions(World, c))
  /\ ret' = [op |-> "getColOptions", arg |-> c, val |-> TRUE, raised |-> Null]
  /\ hist' = Touch(hist)
  /\ UNCHANGED <<call, env>>

DeleteBegin(force) ==
  /\ call = Idle
  /\ hist.runs < MaxRuns
  /\ IF hist.inst = NoRow
     THEN /\ store.models[Target] # NoRow
          /\ LET c == DeleteCall(InstOf(store.models[Target]), force)
             IN /\ call' = c
                /\ hist' = [hist EXCEPT
                     !.inst = c.inst, !.force = force,
                     !.expect = DeleteRun(World, c),
                     !.preObj = cache.obj[Target] # NoRow,
                     !.preList = Target \in Range(cache.list[<<P1, B1>>].items),
                     !.preOpt = cache.opt \cap Range(LeftOverColumns(World, c.inst))]
     ELSE /\ call' = DeleteCall(hist.inst, force)
          /\ hist' = [hist EXCEPT !.sameForce = @ /\ force = hist.force]
  /\ UNCHANGED <<store, cache, ret, env>>

DeleteNext ==
  /\ call.op = "delete"
  /\ LET n == DeleteStep(World, call)
     IN /\ SetWorld(n.w)
        /\ IF n.c.pc = "done"
           THEN /\ call' = Idle
                /\ ret' = DeleteReturn(call)
                /\ hist' = [hist EXCEPT
                     !.runs = @ + 1,
                     !.first = IF hist.runs = 0 /\ hist.clean THEN n.w ELSE @]
           ELSE /\ call' = n.c
                /\ UNCHANGED <<ret, hist>>
  /\ UNCHANGED env

\* an I/O failure of the call delete is about to make: it propagates
DeleteFail ==
  /\ call.op = "delete"
  /\ hist.fails < MaxFails
  /\ call' = Idle
  /\ ret' = DeleteRaise(call)
  /\ hist' = [hist EXCEPT !.fails = @ + 1, !.failPc = call.pc]
  /\ UNCHANGED <<store, cache, env>>

NextDelete ==
  \/ DGet(Target)
  \/ DList(P1, B1)
  \/ DGetByAliasOrId(P1, Null, "t1")
  \/ \E c \in {"c2", "c3"} : DLoadColOptions(c)
  \/ \E force \in BOOLEAN : DeleteBegin(force)
  \/ DeleteNext
  \/ DeleteFail

SpecDelete == InitDelete /\ [][NextDelete]_vars

----------------------------------------------------------------------------
(* Claims on delete, checked under SpecDelete *)

ListIds(rows) == {rows[i].id : i \in 1..Len(rows)}

\* C1: once delete() of Model M has returned, get(M.id) returns absent and
\* list(P, B) of M's scope does not contain M, whether or not M's object and
\* its list membership were cached when the delete began.
C1_DeletedIsAbsent ==
  (hist.runs >= 1 /\ call = Idle) =>
    /\ Get(World, Target).ret = NoRow
    /\ Target \notin ListIds(List(World, P1, B1).ret)
    /\ (ret.op = "get" /\ ret.arg = Target) => ret.val = NoRow
    /\ ret.op = "list" => Target \notin ListIds(ret.val)

\* a get(M.id) answered absent after the delete of an M that was cached, as an
\* object and as a list member, when the delete began
C1_Witness ==
  /\ hist.runs >= 1 /\ hist.fails = 0
  /\ hist.preObj /\ hist.preList
  /\ ret.op = "get" /\ ret.arg = Target /\ ret.val = NoRow

\* C2: a second delete() on a Model whose delete() already returned, with the
\* same force, returns without an error and leaves the store and the cache as
\* the first delete left them.
C2_DeleteIdempotent ==
  (/\ hist.runs = 2 /\ hist.fails = 0 /\ hist.clean /\ hist.sameForce
   /\ call = Idle /\ ret.op = "delete") =>
    /\ ret.raised = Null /\ ret.val = TRUE
    /\ World = hist.first

\* the second delete of a forced delete has returned
C2_Witness ==
  /\ hist.runs = 2 /\ hist.fails = 0 /\ hist.clean /\ hist.sameForce /\ hist.force
  /\ call = Idle /\ ret = DeleteReturn([inst |-> hist.inst])
  /\ store.models[Target] = NoRow

\* C3: an I/O failure inside delete() reaches the caller, and the re-run of
\* delete() (same instance, same force) that returns leaves the store and the
\* cache as a delete without interruption would have left them.
C3_DeleteRerunConverges ==
  /\ (/\ hist.fails >= 1 /\ hist.runs = 0 /\ hist.clean /\ call = Idle) =>
       (ret.op = "delete" /\ ret.raised = "IOError")
  /\ (/\ hist.fails >= 1 /\ hist.runs = 1 /\ hist.clean /\ hist.sameForce
      /\ call = Idle /\ ret.op = "delete" /\ ret.raised = Null) =>
       World = hist.expect

\* a re-run has returned after an interruption that had already removed the
\* Model's column rows but not yet its own row
C3_Witness ==
  /\ hist.fails >= 1 /\ hist.runs = 1 /\ hist.clean /\ hist.sameForce
  /\ call = Idle /\ ret.op = "delete" /\ ret.raised = Null
  /\ hist.failPc = "modelCache" /\ hist.force
  /\ World = hist.expect
  /\ store.models[Target] = NoRow

----------------------------------------------------------------------------
(* Model.updateAliasAndTableName(tableId, title, table_name) *)

\* mutant: table_name is validated after the cache patch
UpdateAliasAndTableName_lateCheck(w, id, title, table_name) ==
  LET o == cacheGet(w, id)
      patched == IF o # NoRow
                 THEN cacheSet(w, id, [o EXCEPT !.title = title, !.table_name = table_name])
                 ELSE w
  IN IF title = "" THEN [w |-> w, raised |-> "badRequest"]
     ELSE IF table_name = "" THEN [w |-> patched, raised |-> "badRequest"]
     ELSE [w |-> IF patched.st.models[id] # NoRow
                 THEN [patched EXCEPT !.st.models[id].title = title,
                                      !.st.models[id].table_name = table_name]
                 ELSE patched,
           raised |-> Null]

UpdateAliasAndTableName(w, id, title, table_name) ==
  LET o == cacheGet(w, id)
      patched == IF o # NoRow
                 THEN cacheSet(w, id, [o EXCEPT !.title = title, !.table_name = table_name])
                 ELSE w
  IN IF title = "" \/ table_name = "" THEN [w |-> w, raised |-> "badRequest"]
     ELSE [w |-> IF patched.st.models[id] # NoRow
                 THEN [patched EXCEPT !.st.models[id].title = title,
                                      !.st.models[id].table_name = table_name]
                 ELSE patched,
           raised |-> Null]

----------------------------------------------------------------------------
(* Model.updatePrimaryColumn(tableId, columnId), one step per await *)

FindCol(columns, columnId) ==
  LET hit == {i \in 1..Len(columns) : columns[i].id = columnId}
  IN IF hit = {} THEN NoRow ELSE columns[CHOOSE i \in hit : \A j \in hit : i <= j]

\* mutant: find instead of filter, only the first flagged column is dropped
PvToClear_first(columns) ==
  LET hit == {i \in 1..Len(columns) : columns[i].pv}
  IN IF hit = {} THEN <<>> ELSE <<columns[CHOOSE i \in hit : \A j \in hit : i <= j].id>>

\* model.columns?.filter((c) => c.pv)
PvToClear(columns) ==
  FilterSeq([i \in 1..Len(columns) |-> columns[i].id],
            {columns[i].id : i \in {j \in 1..Len(columns) : columns[j].pv}})

\* the cache patch of one column: get COLUMN:id, set pv, set back
PvPatchCache(w, cid, pv) ==
  IF cid \in ColIds /\ w.ca.col[cid] # NoRow
  THEN [w EXCEPT !.ca.col[cid].pv = pv]
  ELSE w

\* metaUpdate(COLUMNS, {pv}, id)
PvUpdateStore(w, cid, pv) ==
  IF cid \in ColIds /\ w.st.columns[cid] # NoRow
  THEN [w EXCEPT !.st.columns[cid].pv = pv]
  ELSE w

\* mutant: the loop's store update names the new column, not the one it drops
PvClearStore_newCol(w, c) == PvUpdateStore(w, c.target, FALSE)

PvClearStore(w, c) == PvUpdateStore(w, Head(c.cols), FALSE)

PvCall(tableId, columnId) ==
  [op |-> "updatePv", pc |-> "load", tableId |-> tableId, columnId |-> columnId,
   target |-> Null, cols |-> <<>>]

PvStep(w, c) ==
  CASE c.pc = "load" ->
         LET m == GetWithInfo(w, c.tableId)
             newPvCol == FindCol(m.columns, c.columnId)
         IN IF m.raised # Null
            THEN [w |-> m.w, c |-> [c EXCEPT !.pc = "raise"], raised |-> m.raised]
            ELSE IF newPvCol = NoRow
            THEN [w |-> m.w, c |-> [c EXCEPT !.pc = "raise"], raised |-> "badRequest"]
            ELSE [w |-> m.w,
                  c |-> [c EXCEPT !.pc = "clearCache", !.target = newPvCol.id,
                                  !.cols = PvToClear(m.columns)],
                  raised |-> Null]
    [] c.pc = "clearCache" ->
         IF c.cols = <<>> THEN [w |-> w, c |-> [c EXCEPT !.pc = "setCache"], raised |-> Null]
         ELSE [w |-> PvPatchCache(w, Head(c.cols), FALSE),
               c |-> [c EXCEPT !.pc = "clearStore"], raised |-> Null]
    [] c.pc = "clearStore" ->
         [w |-> PvClearStore(w, c),
          c |-> [c EXCEPT !.pc = "clearCache", !.cols = Tail(@)], raised |-> Null]
    [] c.pc = "setCache" ->
         [w |-> PvPatchCache(w, c.target, TRUE),
          c |-> [c EXCEPT !.pc = "setStore"], raised |-> Null]
    [] c.pc = "setStore" ->
         [w |-> PvUpdateStore(w, c.target, TRUE),
          c |-> [c EXCEPT !.pc = "fixViews"], raised |-> Null]
    [] c.pc = "fixViews" ->
         [w |-> w, c |-> [c EXCEPT !.pc = "done"], raised |-> Null]

----------------------------------------------------------------------------
(* Specification SpecPv: the primary-value switch and the rename of one    *)
(* Model, from every configuration of flags on its three columns.          *)

PvCols == {"c1", "c2", "c3"}

PvStore(pvs) ==
  [models |-> [id \in ModelIds |->
                 CASE id = "m1" -> ModelRow("m1", B1, "t1", "n1", 1)
                   [] id = "m2" -> ModelRow("m2", B1, "t2", "n2", 2)
                   [] OTHER -> NoRow],
   columns |-> [c \in ColIds |->
                  IF c \in PvCols
                  THEN ColRow(c, "m1", c, c, TextT, c = "c1", c \in pvs)
                  ELSE ColRow(c, "m2", c, c, TextT, TRUE, FALSE)],
   side |-> [c \in ColIds |-> NoRow],
   views |-> [v \in ViewIds |-> IF v = "v1" THEN "m1" ELSE "m2"],
   audits |-> {},
   phys |-> <<"m1", "m2", "m3">>,
   nullsFirst |-> FALSE]

\* the columns of Model m flagged primary-value in the store
Flagged(st, m) ==
  {c \in ColIds : st.columns[c] # NoRow /\ st.columns[c].fk_model_id = m
                  /\ st.columns[c].pv}

InitPv ==
  /\ \E pvs \in SUBSET PvCols : store = PvStore(pvs)
  /\ cache = EmptyCache
  /\ call = Idle
  /\ ret = [op |-> "none", arg |-> Null, val |-> FALSE, raised |-> Null]
  /\ hist = [atBegin |-> World, pre |-> {}]
  /\ env = NoEnv

PGetWithInfo(id) ==
  /\ call = Idle
  /\ LET r == GetWithInfo(World, id)
     IN /\ SetWorld(r.w)
        /\ ret' = [op |-> "getWithInfo", arg |-> id, val |-> r.ret, raised |-> r.raised]
  /\ hist' = [hist EXCEPT !.atBegin = World]
  /\ UNCHANGED <<call, env>>

PUpdateAliasAndTableName(id, title, table_name) ==
  /\ call = Idle
  /\ LET r == UpdateAliasAndTableName(World, id, title, table_name)
     IN /\ SetWorld(r.w)
        /\ ret' = [op |-> "updateAliasAndTableName", arg |-> id, val |-> r.raised = Null,
                   raised |-> r.raised]
  /\ hist' = [hist EXCEPT !.atBegin = World]
  /\ UNCHANGED <<call, env>>

PvBegin(tableId, columnId) ==
  /\ call = Idle
  /\ call' = PvCall(tableId, columnId)
  /\ hist' = [atBegin |-> World, pre |-> Flagged(store, tableId)]
  /\ UNCHANGED <<store, cache, ret, env>>

PvNext ==
  /\ call.op = "updatePv"
  /\ LET n == PvStep(World, call)
     IN /\ SetWorld(n.w)
        /\ IF n.c.pc \in {"done", "raise"}
           THEN /\ call' = Idle
                /\ ret' = [op |-> "updatePv", arg |-> call.columnId,
                           val |-> n.raised = Null, raised |-> n.raised]
           ELSE /\ call' = n.c
                /\ UNCHANGED ret
  /\ UNCHANGED <<hist, env>>

NextPv ==
  \/ PGetWithInfo("m1")
  \/ \E title \in {"", "t9"}, table_name \in {"", "n9"} :
       PUpdateAliasAndTableName("m1", title, table_name)
  \/ \E columnId \in ColIds : PvBegin("m1", columnId)
  \/ PvNext

SpecPv == InitPv /\ [][NextPv]_vars

----------------------------------------------------------------------------
(* Claims on updatePrimaryColumn and on validation, checked under SpecPv *)

\* C4: when updatePrimaryColumn(modelId, columnId) has returned, with columnId
\* a column of the Model, exactly one column of the Model is flagged
\* primary-value in the store, and it is columnId, whatever columns were
\* flagged before (none, one, several, columnId among them).
C4_ExactlyOnePv ==
  (call = Idle /\ ret.op = "updatePv" /\ ret.raised = Null) =>
    Flagged(store, "m1") = {ret.arg}

\* the call has returned from a start with several flagged columns, the
\* target among them
C4_Witness ==
  /\ call = Idle /\ ret.op = "updatePv" /\ ret.raised = Null
  /\ Cardinality(hist.pre) >= 2 /\ ret.arg \in hist.pre
  /\ Flagged(store, "m1") = {ret.arg}

\* C5: inside one updatePrimaryColumn run every flag is cleared before the
\* target's flag is set: when the set is reached no other column is flagged,
\* and from a start with at most one flagged column no intermediate store
\* state holds more than one.
C5_ClearBeforeSet ==
  call.op = "updatePv" =>
    /\ call.pc \in {"setCache", "setStore"} => Flagged(store, "m1") \subseteq {call.target}
    /\ call.pc = "fixViews" => Flagged(store, "m1") = {call.target}
    /\ Cardinality(hist.pre) <= 1 => Cardinality(Flagged(store, "m1")) <= 1

\* the run is about to set the target's flag after clearing another column's
C5_Witness ==
  /\ call.op = "updatePv" /\ call.pc = "setStore"
  /\ Cardinality(hist.pre) = 1 /\ call.target \notin hist.pre
  /\ Flagged(store, "m1") = {}

\* C6 as stated: a call that raised bad-request left the cache and the store
\* as they were when it began.
C6_Original_NothingWritten ==
  (call = Idle /\ ret.raised = "badRequest") => World = hist.atBegin

\* the column list cache as a read-through fill from the store leaves it
ColListFill(st, m) ==
  [known |-> TRUE,
   items |-> FilterSeq(ColSeq, {c \in ColIds : st.columns[c] # NoRow
                                              /\ st.columns[c].fk_model_id = m})]

\* C6 (amended): a call that raised bad-request wrote no store row and patched
\* no cached value: the store is as it was; a failed updateAliasAndTableName
\* left the cache as it was; a failed updatePrimaryColumn changed the cache at
\* most by the read-through entries of getWithInfo (the Model's object, its
\* column list and column objects), each equal to the store's row.
C6_NoMutationBeforeBadRequest ==
  (call = Idle /\ ret.raised = "badRequest") =>
    /\ store = hist.atBegin.st
    /\ ret.op = "updateAliasAndTableName" => cache = hist.atBegin.ca
    /\ \A id \in ModelIds :
         cache.obj[id] \in {hist.atBegin.ca.obj[id], ParseRow(store.models[id])}
    /\ \A c \in ColIds : cache.col[c] \in {hist.atBegin.ca.col[c], store.columns[c]}
    /\ \A m \in ModelIds :
         cache.colList[m] \in {hist.atBegin.ca.colList[m], ColListFill(store, m)}
    /\ cache.list = hist.atBegin.ca.list
    /\ cache.alias = hist.atBegin.ca.alias
    /\ cache.opt = hist.atBegin.ca.opt

\* updatePrimaryColumn raised bad-request for a column of another Model after
\* its getWithInfo had filled the cache; the store is as it was
C6_Witness ==
  /\ call = Idle /\ ret.raised = "badRequest" /\ ret.op = "updatePv"
  /\ hist.atBegin.ca.obj["m1"] = NoRow /\ cache.obj["m1"] # NoRow
  /\ store = hist.atBegin.st

----------------------------------------------------------------------------
(* Model.updateOrder(tableId, order) *)

UpdateOrder(w, id, order) ==
  LET o == cacheGet(w, id)
      patched == IF o # NoRow THEN cacheSet(w, id, [o EXCEPT !.order = order]) ELSE w
  IN IF patched.st.models[id] # NoRow
     THEN [patched EXCEPT !.st.models[id].order = order]
     ELSE patched

----------------------------------------------------------------------------
(* Specification SpecList: list and listWithInfo over three Models of one  *)
(* scope, with every assignment of orders (absent included) to the rows in *)
(* their physical order, and both NULL placements of the database.         *)

ListStore(orders, phys, nullsFirst) ==
  [models |-> [id \in ModelIds |-> ModelRow(id, B1, id, id, orders[id])],
   columns |-> [c \in ColIds |-> NoRow],
   side |-> [c \in ColIds |-> NoRow],
   views |-> [v \in ViewIds |-> Null],
   audits |-> {},
   phys |-> phys,
   nullsFirst |-> nullsFirst]

InitList ==
  /\ \E orders \in [ModelIds -> Orders \cup {NoOrder}], nf \in BOOLEAN :
       store = ListStore(orders, <<"m1", "m2", "m3">>, nf)
  /\ cache = EmptyCache
  /\ call = Idle
  /\ ret = [op |-> "none", arg |-> Null, val |-> <<>>, raised |-> Null]
  /\ hist = [retrieved |-> <<>>, fromCache |-> FALSE]
  /\ env = NoEnv

LList(p, b) ==
  /\ LET r == List(World, p, b)
     IN /\ SetWorld(r.w)
        /\ ret' = [op |-> "list", arg |-> <<p, b>>, val |-> r.ret, raised |-> r.raised]
        /\ hist' = [retrieved |-> r.retrieved, fromCache |-> r.w = World]
  /\ UNCHANGED <<call, env>>

LListWithInfo(p, b) ==
  /\ LET r == ListWithInfo(World, p, b)
     IN /\ SetWorld(r.w)
        /\ ret' = [op |-> "listWithInfo", arg |-> <<p, b>>, val |-> r.ret, raised |-> Null]
        /\ hist' = [retrieved |-> r.retrieved, fromCache |-> r.w = World]
  /\ UNCHANGED <<call, env>>

LUpdateOrder(id, order) ==
  /\ store.models[id].order # order
  /\ SetWorld(UpdateOrder(World, id, order))
  /\ ret' = [op |-> "updateOrder", arg |-> id, val |-> <<>>, raised |-> Null]
  /\ UNCHANGED <<call, hist, env>>

NextList ==
  \/ LList(P1, B1)
  \/ LListWithInfo(P1, B1)
  \/ \E id \in ModelIds, order \in Orders : LUpdateOrder(id, order)

SpecList == InitList /\ [][NextList]_vars

----------------------------------------------------------------------------
(* Claims on list order, checked under SpecList *)

\* ascending by order, every row without order after every row with one
AscendingNullsLast(rows) ==
  \A i, j \in 1..Len(rows) :
    i < j => \/ rows[j].order = NoOrder
             \/ (rows[i].order # NoOrder /\ rows[i].order <= rows[j].order)

PosIn(rows, id) == CHOOSE i \in 1..Len(rows) : rows[i].id = id

\* the same rows, and rows of equal order (or both without) in the order
\* they were retrieved in
KeepsRetrievalOrder(rows, retrieved) ==
  /\ Len(rows) = Len(retrieved)
  /\ Range(rows) = Range(retrieved)
  /\ \A i, j \in 1..Len(rows) :
       (i < j /\ rows[i].order = rows[j].order) =>
         PosIn(retrieved, rows[i].id) < PosIn(retrieved, rows[j].id)

\* C7: what list and listWithInfo return is ascending by order with the rows
\* without order last, rows of equal order in retrieval order, from the list
\* cache and from the store alike.
C7_ListsAreOrdered ==
  ret.op \in {"list", "listWithInfo"} =>
    /\ AscendingNullsLast(ret.val)
    /\ KeepsRetrievalOrder(ret.val, hist.retrieved)

\* the part of C7 that list alone meets
ListIsOrdered ==
  ret.op = "list" =>
    /\ AscendingNullsLast(ret.val)
    /\ KeepsRetrievalOrder(ret.val, hist.retrieved)

----------------------------------------------------------------------------
(* Model.mapAliasToColumn and Model.mapColumnToAlias.  A row is a function *)
(* from its own keys to values; a value carries its JavaScript type.       *)

Undef == [t |-> "undefined"]
Num(n) == [t |-> "number", v |-> n]
Obj(n) == [t |-> "object", o |-> n]
Json(n) == [t |-> "string", json |-> n]
DateText(d) == [t |-> "string", dt |-> d]
Raw(sql, d) == [t |-> "raw", sql |-> sql, arg |-> d]

Names == {"a", "b", "q?"}

\* sanitize of helpers/sqlSanitize: a '?' of the name is escaped
sanitize(name) == IF name = "q?" THEN "q\\?" ELSE name

\* data?.[key]
Prop(data, key) == IF key \in DOMAIN data THEN data[key] ELSE Undef

\* obj[key] = val
Assign(obj, key, val) ==
  [k \in DOMAIN obj \cup {key} |-> IF k = key THEN val ELSE obj[k]]

EmptyObj == [k \in {} |-> Undef]

(* A date-time text: the date with its separators, the wall clock in hours, *)
(* and what follows it: nothing, Z, or a signed offset in hours.            *)

NoZone == [sign |-> "", hours |-> 0]
Zulu == [sign |-> "Z", hours |-> 0]

DateTimeOf(sep, clock, zone) ==
  [date |-> <<"2022", sep, "01", sep, "01">>, clock |-> clock, zone |-> zone]

\* val.indexOf(ch) < 0: digits, ':' and ' ' of the text are none of - + Z
LacksChar(d, ch) == ch \notin (Range(d.date) \cup {d.zone.sign})

\* val.slice(-1)
LastChar(d) == IF d.zone.sign = "Z" THEN "Z" ELSE "0"

\* dayjs(val): the instant, in hours; a text without zone is server-local time
DayjsInstant(d, tz) ==
  CASE d.zone.sign = "" -> d.clock - tz
    [] d.zone.sign = "Z" -> d.clock
    [] d.zone.sign = "+" -> d.clock - d.zone.hours
    [] OTHER -> d.clock + d.zone.hours

\* dayjs(val).utc().format('YYYY-MM-DD HH:mm:ss') and ...format('... HH:mm:ssZ')
FormatUtc(instant, withZone) ==
  DateTimeOf("-", instant, IF withZone THEN [sign |-> "+", hours |-> 0] ELSE NoZone)

\* the DateTime branch of mapAliasToColumn (lines 483-533)
CoerceDateTime(d, clientMeta, tz) ==
  LET val == IF LacksChar(d, "-") /\ LacksChar(d, "+") /\ LastChar(d) # "Z"
             THEN [d EXCEPT !.zone = [sign |-> "+", hours |-> 0]]
             ELSE d
      instant == DayjsInstant(val, tz)
  IN CASE clientMeta = "isMySQL" -> Raw("CONVERT_TZ", FormatUtc(instant, FALSE))
       [] clientMeta = "isSqlite" -> DateText(FormatUtc(instant, TRUE))
       [] clientMeta = "isPg" -> Raw("AT TIME ZONE", FormatUtc(instant, TRUE))
       [] clientMeta = "isMssql" -> Raw("SWITCHOFFSET", FormatUtc(instant, TRUE))
       [] OTHER -> DateText(FormatUtc(instant, TRUE))

\* the instant the database reads from what it is handed: CONVERT_TZ reads its
\* argument at '+00:00', the other forms carry their own offset
StoredInstant(v) ==
  IF v.t = "raw" /\ v.sql = "CONVERT_TZ" THEN v.arg.clock
  ELSE LET d == IF v.t = "raw" THEN v.arg ELSE v.dt IN DayjsInstant(d, 0)

IsDateText(v) == v.t = "string" /\ "dt" \in DOMAIN v

RECURSIVE MapAliasLoop(_, _, _, _, _)
MapAliasLoop(columns, data, clientMeta, tz, insertObj) ==
  IF columns = <<>> THEN insertObj
  ELSE LET col == Head(columns)
           picked == IF Prop(data, col.column_name) # Undef
                     THEN Prop(data, col.column_name)
                     ELSE Prop(data, col.title)
           v1 == IF col.uidt = AttachmentT /\ picked.t # "string"
                 THEN Json(picked) ELSE picked
           v2 == IF col.uidt = DateTimeT /\ IsDateText(v1)
                 THEN CoerceDateTime(v1.dt, clientMeta, tz) ELSE v1
       IN MapAliasLoop(Tail(columns), data, clientMeta, tz,
            IF isVirtualCol(col) \/ picked = Undef THEN insertObj
            ELSE Assign(insertObj, sanitize(col.column_name), v2))

mapAliasToColumn(columns, data, clientMeta, tz) ==
  MapAliasLoop(columns, data, clientMeta, tz, EmptyObj)

RECURSIVE MapColumnLoop(_, _, _)
MapColumnLoop(columns, data, res) ==
  IF columns = <<>> THEN res
  ELSE LET col == Head(columns)
           picked == IF Prop(data, col.title) # Undef
                     THEN Prop(data, col.title)
                     ELSE Prop(data, col.column_name)
           v1 == IF col.uidt = AttachmentT /\ picked.t # "string"
                 THEN Json(picked) ELSE picked
       IN MapColumnLoop(Tail(columns), data,
            IF isVirtualCol(col) \/ picked = Undef THEN res
            ELSE Assign(res, sanitize(col.title), v1))

mapColumnToAlias(columns, data) == MapColumnLoop(columns, data, EmptyObj)

----------------------------------------------------------------------------
(* Specification SpecMap: one Model with up to two columns, a row and the  *)
(* server's surroundings (database dialect, local zone); the row is mapped *)
(* to physical names and the result mapped back.                           *)

MapModel == "m1"

MapStore(cols) ==
  [models |-> [id \in ModelIds |->
                 IF id = MapModel THEN ModelRow(id, B1, "t1", "n1", 1) ELSE NoRow],
   columns |-> [c \in ColIds |-> IF c \in DOMAIN cols THEN cols[c] ELSE NoRow],
   side |-> [c \in ColIds |-> NoRow],
   views |-> [v \in ViewIds |-> Null],
   audits |-> {},
   phys |-> <<"m1", "m2", "m3">>,
   nullsFirst |-> FALSE]

PlainValues == {Undef, Num(1), Num(2), Obj(1)}

ClientMetas == {"isMySQL", "isSqlite", "isPg", "isMssql", "none"}

Zones ==
  {NoZone, Zulu} \cup {[sign |-> s, hours |-> h] : s \in {"+", "-"}, h \in 0..MaxTz}

DateTexts ==
  {DateTimeOf(sep, clock, zone) : sep \in {"-", "/"}, clock \in 0..MaxClock, zone \in Zones}

\* two columns named freely, every title and every column_name used once
InitNames ==
  \E t1, t2, n1, n2 \in Names, u1 \in {TextT, FormulaT}, u2 \in {TextT, AttachmentT},
     data \in [Names -> PlainValues] :
    /\ t1 # t2 /\ n1 # n2
    /\ store = MapStore([c \in {"c1", "c2"} |->
                  IF c = "c1" THEN ColRow(c, MapModel, t1, n1, u1, TRUE, FALSE)
                  ELSE ColRow(c, MapModel, t2, n2, u2, FALSE, TRUE)])
    /\ env = [data |-> data, clientMeta |-> "none", tz |-> 0]

\* one DateTime column and a row holding a date-time text under it
InitDates ==
  \E d \in DateTexts, cm \in ClientMetas, tz \in (0 - MaxTz)..MaxTz :
    /\ store = MapStore([c \in {"c1"} |->
                  ColRow(c, MapModel, "a", "a", DateTimeT, FALSE, FALSE)])
    /\ env = [data |-> [k \in {"a"} |-> DateText(d)], clientMeta |-> cm, tz |-> tz]

InitMap ==
  /\ InitNames \/ InitDates
  /\ cache = EmptyCache
  /\ call = Idle
  /\ ret = [op |-> "none", val |-> EmptyObj]
  /\ hist = [stage |-> "input"]

MMapAliasToColumn ==
  /\ hist.stage = "input"
  /\ LET g == getColumns(World, MapModel)
     IN /\ SetWorld(g.w)
        /\ ret' = [op |-> "mapAliasToColumn",
                   val |-> mapAliasToColumn(g.ret, env.data, env.clientMeta, env.tz)]
  /\ hist' = [stage |-> "mapped"]
  /\ UNCHANGED <<call, env>>

MMapColumnToAlias ==
  /\ hist.stage = "mapped"
  /\ LET g == getColumns(World, MapModel)
     IN /\ SetWorld(g.w)
        /\ ret' = [op |-> "mapColumnToAlias", val |-> mapColumnToAlias(g.ret, ret.val)]
  /\ hist' = [stage |-> "back"]
  /\ UNCHANGED <<call, env>>

NextMap == MMapAliasToColumn \/ MMapColumnToAlias

SpecMap == InitMap /\ [][NextMap]_vars

----------------------------------------------------------------------------
(* Claims on the alias mapping, checked under SpecMap *)

MapCols == {store.columns[c] : c \in ModelColIds(World, MapModel)}

Defined(data) == {k \in DOMAIN data : data[k] # Undef}

\* the names sanitize leaves alone, on columns whose values are not coerced
PlainNaming ==
  \A col \in MapCols :
    /\ col.uidt \in {TextT, FormulaT}
    /\ sanitize(col.title) = col.title
    /\ sanitize(col.column_name) = col.column_name

AliasKeyed(data) == Defined(data) \subseteq {col.title : col \in MapCols}

PhysKeyed(data) == Defined(data) \subseteq {col.column_name : col \in MapCols}

\* C8: feeding the output of mapAliasToColumn into mapColumnToAlias gives back
\* the values of the original row under the alias keys, for a row keyed by
\* alias and for a row keyed by physical name, also when the alias of one
\* column is the physical name of another
C8_RoundTrip ==
  (hist.stage = "back" /\ PlainNaming) =>
    /\ AliasKeyed(env.data) =>
         \A col \in MapCols :
           ~isVirtualCol(col) => Prop(ret.val, col.title) = Prop(env.data, col.title)
    /\ PhysKeyed(env.data) =>
         \A col \in MapCols :
           ~isVirtualCol(col) =>
             Prop(ret.val, col.title) = Prop(env.data, col.column_name)

\* C9: when the row holds a defined value under both the alias and the
\* physical name of a column, mapAliasToColumn writes the value given under
\* the alias; a virtual column gives no entry of the output
C9_AliasPrecedence ==
  hist.stage = "mapped" =>
    \A col \in MapCols :
      /\ isVirtualCol(col) => sanitize(col.column_name) \notin DOMAIN ret.val
      /\ (/\ col.uidt = TextT
          /\ Prop(env.data, col.title) # Undef
          /\ Prop(env.data, col.column_name) # Undef)
         => Prop(ret.val, sanitize(col.column_name)) = Prop(env.data, col.title)

\* C10: a date-time text without offset marker is read as UTC: under every
\* dialect the value handed to the database denotes the instant of the text's
\* wall clock at UTC
C10_NoOffsetIsUtc ==
  hist.stage = "mapped" =>
    \A col \in MapCols :
      (/\ col.uidt = DateTimeT
       /\ IsDateText(Prop(env.data, col.title))
       /\ Prop(env.data, col.title).dt.zone = NoZone)
      => StoredInstant(Prop(ret.val, sanitize(col.column_name)))
           = Prop(env.data, col.title).dt.clock

----------------------------------------------------------------------------
(* Model.insert(projectId, baseId, model), one step per await, and the     *)
(* point lookup Model.getByIdOrName.                                       *)

\* a list scope from its sub-keys: absent sub-keys are dropped
ScopeKey(p, b) == IF b = Null THEN <<p>> ELSE <<p, b>>

\* NocoCache.appendToList(MODEL, subKeys, MODEL:id): the key joins the list
appendToList(w, scope, id) ==
  [w EXCEPT !.ca.list[scope] = [known |-> TRUE, items |-> Append(@.items, id)]]

FreeModelIds(w) == {id \in ModelIds : w.st.models[id] = NoRow}
FreeViewIds(w) == {v \in ViewIds : w.st.views[v] = Null}
FreeColIds(w) == {c \in ColIds : w.st.columns[c] = NoRow}

\* metaInsert2(projectId, baseId, MODELS, insertObj) with the id it returns
metaInsert2(w, id, p, b, insertObj) ==
  [w EXCEPT !.st.models[id] =
     [id |-> id, project_id |-> p, base_id |-> b, title |-> insertObj.title,
      table_name |-> insertObj.table_name, order |-> insertObj.order,
      mm |-> insertObj.mm, meta |-> Null, type |-> insertObj.type]]

\* View.insert({fk_model_id, is_default: true, type: GRID})
viewInsert(w, v, m) == [w EXCEPT !.st.views[v] = m]

\* Column.insert({...column, fk_model_id}): the row, its cached object and
\* its membership of the Model's column list
columnInsert(w, c, m, column) ==
  LET row == ColRow(c, m, column.title, column.column_name, column.uidt,
                    column.pk, FALSE)
  IN [w EXCEPT !.st.columns[c] = row,
               !.ca.col[c] = row,
               !.ca.colList[m] = [known |-> TRUE, items |-> Append(@.items, c)]]

\* insert up to its first await: extractProps, mm = !!mm
InsertCall(p, b, model) ==
  [op |-> "insert", projectId |-> p, baseId |-> b, model |-> model,
   insertObj |-> [title |-> model.title, table_name |-> model.table_name,
                  order |-> model.order, mm |-> FALSE, type |-> Null],
   id |-> Null, columns |-> model.columns,
   pc |-> IF model.order \in {NoOrder, 0} THEN "nextOrder" ELSE "metaInsert"]

\* mutant: the scope's list is dropped from the cache ahead of the insert
InsertAllocate_dropsList(w, c, order) ==
  [w |-> [w EXCEPT !.ca.list[ScopeKey(c.projectId, c.baseId)] = NotCached],
   c |-> [c EXCEPT !.insertObj.order = order, !.pc = "metaInsert"]]

\* lines 119-127: insertObj.order = await ncMeta.metaGetNextOrder(...)
InsertAllocate(w, c, order) ==
  [w |-> w, c |-> [c EXCEPT !.insertObj.order = order, !.pc = "metaInsert"]]

\* lines 129-138: the default type, then the row is persisted
InsertPersist(w, c, id) ==
  metaInsert2(w, id, c.projectId, c.baseId, [c.insertObj EXCEPT !.type = "table"])

\* mutant: only the scope with the base is registered
InsertRegisterProject_skipped(w, c) == w

\* lines 148-152
InsertRegisterProject(w, c) == appendToList(w, <<c.projectId>>, c.id)

\* lines 139-145
InsertRegisterBase(w, c) ==
  IF c.baseId # Null THEN appendToList(w, <<c.projectId, c.baseId>>, c.id) ELSE w

\* one step of insert; pick holds what the collaborators choose: the order
\* metaGetNextOrder allots and the ids the store gives the new rows
InsertStep(w, c, pick) ==
  CASE c.pc = "nextOrder" ->
         InsertAllocate(w, c, pick.order)
    [] c.pc = "metaInsert" ->
         [w |-> InsertPersist(w, c, pick.id),
          c |-> [c EXCEPT !.id = pick.id, !.pc = "appendBase"]]
    [] c.pc = "appendBase" ->
         [w |-> InsertRegisterBase(w, c), c |-> [c EXCEPT !.pc = "appendProject"]]
    [] c.pc = "appendProject" ->
         [w |-> InsertRegisterProject(w, c), c |-> [c EXCEPT !.pc = "viewInsert"]]
    [] c.pc = "viewInsert" ->
         [w |-> viewInsert(w, pick.view, c.id), c |-> [c EXCEPT !.pc = "columns"]]
    [] c.pc = "columns" ->
         IF c.columns = <<>> THEN [w |-> w, c |-> [c EXCEPT !.pc = "getWithInfo"]]
         ELSE [w |-> columnInsert(w, pick.col, c.id, Head(c.columns)),
               c |-> [c EXCEPT !.columns = Tail(@)]]
    [] c.pc = "getWithInfo" ->
         [w |-> GetWithInfo(w, c.id).w, c |-> [c EXCEPT !.pc = "done"]]

\* Model.getByIdOrName(args): k is args.id when args has an id, else args
GetByIdOrName(w, args) ==
  LET byId == "id" \in DOMAIN args
      cached == IF byId THEN cacheGet(w, args.id) ELSE NoRow
      hits == {id \in ModelIds :
                 /\ w.st.models[id] # NoRow
                 /\ w.st.models[id].project_id = args.project_id
                 /\ w.st.models[id].base_id = args.base_id
                 /\ w.st.models[id].table_name = args.table_name}
      named == FilterSeq(w.st.phys, hits)
      row == IF byId THEN metaGet2(w, args.id)
             ELSE IF named = <<>> THEN NoRow ELSE w.st.models[Head(named)]
  IN IF cached # NoRow
     THEN [w |-> cacheSet(w, cached.id, cached), ret |-> cached, raised |-> Null]
     ELSE IF row = NoRow
          THEN [w |-> w, ret |-> NoRow, raised |-> "TypeError"]
          ELSE [w |-> cacheSet(w, row.id, ParseRow(row)), ret |-> ParseRow(row),
                raised |-> Null]

----------------------------------------------------------------------------
(* Specification SpecInsert: inserts of Models under (project, base) with  *)
(* I/O failures, among list reads and point lookups.                       *)

InsertStore(withM1) ==
  [models |-> [id \in ModelIds |->
                 IF id = "m1" /\ withM1 THEN ModelRow("m1", B1, "t1", "n1", 1)
                 ELSE NoRow],
   columns |-> [c \in ColIds |-> NoRow],
   side |-> [c \in ColIds |-> NoRow],
   views |-> [v \in ViewIds |-> IF v = "v1" /\ withM1 THEN "m1" ELSE Null],
   audits |-> {},
   phys |-> <<"m1", "m2", "m3">>,
   nullsFirst |-> FALSE]

\* the table requests insert is given: order absent or set; inline columns
InsertModels ==
  {[title |-> t[1], table_name |-> t[2], order |-> o, columns |-> cs] :
     t \in {<<"t2", "n2">>, <<"t3", "n3">>},
     o \in {NoOrder, 1},
     cs \in {<<>>, <<[title |-> "x", column_name |-> "x", uidt |-> TextT, pk |-> TRUE]>>}}

InitInsert ==
  /\ \E withM1 \in BOOLEAN : store = InsertStore(withM1)
  /\ cache = EmptyCache
  /\ call = Idle
  /\ ret = [op |-> "none", arg |-> Null, val |-> NoRow, raised |-> Null]
  /\ hist = [atBegin |-> World, failPc |-> Null, fails |-> 0, id |-> Null]
  /\ env = NoEnv

IList(p, b) ==
  /\ call = Idle
  /\ SetWorld(List(World, p, b).w)
  /\ ret' = [op |-> "list", arg |-> <<p, b>>, val |-> NoRow,
             raised |-> List(World, p, b).raised]
  /\ UNCHANGED <<call, hist, env>>

IListWithInfo(p, b) ==
  /\ call = Idle
  /\ SetWorld(ListWithInfo(World, p, b).w)
  /\ ret' = [op |-> "listWithInfo", arg |-> <<p, b>>, val |-> NoRow, raised |-> Null]
  /\ UNCHANGED <<call, hist, env>>

\* ids are fresh and their names immaterial: the store hands out the first
\* unused one
FirstOf(seq, S) == IF FilterSeq(seq, S) = <<>> THEN Null ELSE Head(FilterSeq(seq, S))

\* the title is free when insert is called (titles being immaterial, the
\* first unused one), and the store has room for the rows
InsertBegin(b, model) ==
  /\ call = Idle
  /\ FreeModelIds(World) # {} /\ FreeViewIds(World) # {}
  /\ model.title = FirstOf(<<"t2", "t3">>,
                           {"t2", "t3"} \ {store.models[id].title :
                                             id \in ModelIds \ FreeModelIds(World)})
  /\ call' = InsertCall(P1, b, model)
  /\ hist' = [hist EXCEPT !.atBegin = World, !.failPc = Null, !.id = Null]
  /\ UNCHANGED <<store, cache, ret, env>>

InsertNext ==
  /\ call.op = "insert"
  /\ \E order \in 1..MaxOrder :
       LET w == World
           n == InsertStep(w, call,
                  [order |-> order,
                   id |-> FirstOf(w.st.phys, FreeModelIds(w)),
                   view |-> FirstOf(ViewSeq, FreeViewIds(w)),
                   col |-> FirstOf(ColSeq, FreeColIds(w))])
       IN /\ SetWorld(n.w)
          /\ IF n.c.pc = "done"
             THEN /\ call' = Idle
                  /\ ret' = [op |-> "insert", arg |-> <<call.projectId, call.baseId>>,
                             val |-> GetWithInfo(w, call.id).ret, raised |-> Null]
                  /\ hist' = [hist EXCEPT !.id = call.id]
             ELSE /\ call' = n.c
                  /\ UNCHANGED <<ret, hist>>
  /\ UNCHANGED env

\* the call insert is about to make fails: nothing catches it
InsertRaise(c) ==
  [op |-> "insert", arg |-> <<c.projectId, c.baseId>>, val |-> NoRow,
   raised |-> "IOError"]

InsertFail ==
  /\ call.op = "insert"
  /\ hist.fails < MaxFails
  /\ ~(call.pc = "columns" /\ call.columns = <<>>)
  /\ ~(call.pc = "appendBase" /\ call.baseId = Null)
  /\ call' = Idle
  /\ ret' = InsertRaise(call)
  /\ hist' = [hist EXCEPT !.fails = @ + 1, !.failPc = call.pc]
  /\ UNCHANGED <<store, cache, env>>

NextInsert ==
  \/ IList(P1, B1)
  \/ IListWithInfo(P1, B1)
  \/ \E b \in {B1, B2, Null}, model \in InsertModels : InsertBegin(b, model)
  \/ InsertNext
  \/ InsertFail

SpecInsert == InitInsert /\ [][NextInsert]_vars

----------------------------------------------------------------------------
(* Claims on insert, checked under SpecInsert *)

Members(scope) == Range(cache.list[scope].items)

C12_FailedInsertLeavesCache ==
  (ret.op = "insert" /\ hist.failPc \in {"nextOrder", "metaInsert"}) =>
    /\ ret.raised = "IOError"
    /\ cache = hist.atBegin.ca

C12_Witness ==
  /\ ret.op = "insert" /\ ret.raised = "IOError"
  /\ hist.failPc = "metaInsert"
  /\ cache.list[<<P1, B1>>].known
  /\ ret.arg[2] = B1

----------------------------------------------------------------------------
(* Specification SpecLookup: the point lookups over a store holding any    *)
(* of the Models, the cache filling as they run.                           *)

LookupStore(present) ==
  [models |-> [id \in ModelIds |->
                 CASE id \notin present -> NoRow
                   [] id = "m1" -> ModelRow("m1", B1, "t1", "n1", 1)
                   [] id = "m2" -> ModelRow("m2", B1, "t2", "n2", 2)
                   [] OTHER -> ModelRow("m3", B2, "t3", "n3", NoOrder)],
   columns |-> [c \in ColIds |->
                  IF c = "c1" /\ "m1" \in present
                  THEN ColRow("c1", "m1", "a", "a", TextT, TRUE, TRUE) ELSE NoRow],
   side |-> [c \in ColIds |-> NoRow],
   views |-> [v \in ViewIds |-> IF v = "v1" /\ "m1" \in present THEN "m1" ELSE Null],
   audits |-> {},
   phys |-> <<"m1", "m2", "m3">>,
   nullsFirst |-> FALSE]

InitLookup ==
  /\ \E present \in SUBSET ModelIds : store = LookupStore(present)
  /\ cache = EmptyCache
  /\ call = Idle
  /\ ret = [op |-> "none", arg |-> Null, val |-> NoRow, raised |-> Null]
  /\ hist = [atBegin |-> World, queried |-> FALSE]
  /\ env = NoEnv

KGet(id) ==
  /\ call = Idle
  /\ LET r == Get(World, id)
     IN /\ SetWorld(r.w)
        /\ ret' = [op |-> "get", arg |-> id, val |-> r.ret, raised |-> Null]
  /\ hist' = [atBegin |-> World, queried |-> FALSE]
  /\ UNCHANGED <<call, env>>

KGetByIdOrName(args) ==
  /\ call = Idle
  /\ LET r == GetByIdOrName(World, args)
     IN /\ SetWorld(r.w)
        /\ ret' = [op |-> "getByIdOrName", arg |-> args, val |-> r.ret,
                   raised |-> r.raised]
  /\ hist' = [atBegin |-> World, queried |-> FALSE]
  /\ UNCHANGED <<call, env>>

KGetWithInfo(id) ==
  /\ call = Idle
  /\ LET r == GetWithInfo(World, id)
     IN /\ SetWorld(r.w)
        /\ ret' = [op |-> "getWithInfo", arg |-> id, val |-> r.ret,
                   raised |-> r.raised]
  /\ hist' = [atBegin |-> World, queried |-> FALSE]
  /\ UNCHANGED <<call, env>>

KGetByAliasOrId(p, b, a) ==
  /\ call = Idle
  /\ LET r == GetByAliasOrId(World, p, b, a)
     IN /\ SetWorld(r.w)
        /\ ret' = [op |-> "getByAliasOrId", arg |-> <<p, b, a>>, val |-> r.ret,
                   raised |-> Null]
  /\ hist' = [atBegin |-> World, queried |-> FALSE]
  /\ UNCHANGED <<call, env>>

KList(p, b) ==
  /\ call = Idle
  /\ LET r == List(World, p, b)
     IN /\ SetWorld(r.w)
        /\ ret' = [op |-> "list", arg |-> <<p, b>>, val |-> r.ret, raised |-> r.raised]
        /\ hist' = [atBegin |-> World, queried |-> r.queried]
  /\ UNCHANGED <<call, env>>

KListWithInfo(p, b) ==
  /\ call = Idle
  /\ LET r == ListWithInfo(World, p, b)
     IN /\ SetWorld(r.w)
        /\ ret' = [op |-> "listWithInfo", arg |-> <<p, b>>, val |-> r.ret,
                   raised |-> Null]
        /\ hist' = [atBegin |-> World, queried |-> r.queried]
  /\ UNCHANGED <<call, env>>

NextLookup ==
  \/ \E b \in {B1, B2} : KList(P1, b)
  \/ KListWithInfo(P1, B1)
  \/ \E id \in ModelIds : KGet(id)
  \/ \E id \in ModelIds : KGetByIdOrName([id |-> id])
  \/ \E t \in {"n1", "n3"} :
       KGetByIdOrName([project_id |-> P1, base_id |-> B1, table_name |-> t])
  \/ \E id \in ModelIds : KGetWithInfo(id)
  \/ \E a \in {"m1", "t2"} : KGetByAliasOrId(P1, Null, a)

SpecLookup == InitLookup /\ [][NextLookup]_vars

----------------------------------------------------------------------------
(* Claims on the point lookups, checked under SpecLookup *)

\* the lookup just made matched no row of the store and no cache entry
MatchedNothing ==
  LET w == hist.atBegin
  IN CASE ret.op \in {"get", "getWithInfo"} ->
            metaGet2(w, ret.arg) = NoRow /\ cacheGet(w, ret.arg) = NoRow
       [] ret.op = "getByIdOrName" ->
            IF "id" \in DOMAIN ret.arg
            THEN metaGet2(w, ret.arg.id) = NoRow /\ cacheGet(w, ret.arg.id) = NoRow
            ELSE \A id \in ModelIds :
                   w.st.models[id] # NoRow =>
                     w.st.models[id].table_name # ret.arg.table_name
       [] ret.op = "getByAliasOrId" ->
            /\ AliasLookup(w, ret.arg[1], ret.arg[2], ret.arg[3]) = NoRow
            /\ AliasKey(ret.arg[1], ret.arg[2], ret.arg[3]) \notin DOMAIN w.ca.alias
       [] OTHER -> FALSE

\* C13: a point lookup (get, getByIdOrName, getWithInfo, getByAliasOrId) that
\* matches no row of the store and no cache entry returns the absent value
\* and raises nothing
C13_NotFoundIsAbsent ==
  MatchedNothing => (ret.raised = Null /\ ret.val = NoRow)


\* the list scope the last list or listWithInfo read, then and now
ReadScope == <<ret.arg[1], ret.arg[2]>>

IsMiss(l) == ~l.known /\ l.items = <<>>

\* C14: after list or listWithInfo missed the list cache and fetched from the
\* store, the scope the call read holds the fetched items, so that the same
\* call made again is answered without a store query
C14_FallbackFillsReadScope ==
  (ret.op \in {"list", "listWithInfo"} /\ hist.queried) =>
    /\ ~IsMiss(cache.list[ReadScope])
    /\ cache.list[ReadScope].items = [i \in 1..Len(ret.val) |-> ret.val[i].id]

\* C15: list queries the store exactly when the scope is not cached; a scope
\* cached as known-empty gives the empty result without a query; a fallback
\* that fetched no row leaves the scope known-empty
C15_ListQueriesOnMissOnly ==
  ret.op = "list" =>
    LET before == hist.atBegin.ca.list[ReadScope]
    IN /\ hist.queried <=> IsMiss(before)
       /\ (before.known /\ before.items = <<>>) =>
            (ret.val = <<>> /\ cache = hist.atBegin.ca)
       /\ (hist.queried /\ ScopeIds(hist.atBegin, ret.arg[1], ret.arg[2]) = {}) =>
            (cache.list[ReadScope] = [known |-> TRUE, items |-> <<>>] /\ ret.val = <<>>)

\* list answered from a scope cached as known-empty
C15_Witness ==
  /\ ret.op = "list"
  /\ ~hist.queried
  /\ hist.atBegin.ca.list[ReadScope] = [known |-> TRUE, items |-> <<>>]
  /\ ret.val = <<>>

----------------------------------------------------------------------------
(* The narrow updates (updateAliasAndTableName, markAsMmTable, updateOrder, *)
(* setAsMm, updateMeta), one step per await: NocoCache.get, NocoCache.set, *)
(* ncMeta.metaUpdate.                                                      *)

UpdateKinds == {"updateAliasAndTableName", "markAsMmTable", "updateOrder",
                "setAsMm", "updateMeta"}

\* typeof meta === 'string' / 'object'
IsObject(meta) == meta \in {"obj()", "obj(a=1)"}

\* JSON.parse(meta): throws on a text that is no JSON
JsonParse(meta) ==
  CASE meta = "{}" -> [ok |-> TRUE, val |-> "obj()"]
    [] meta = "{a:1}" -> [ok |-> TRUE, val |-> "obj(a=1)"]
    [] OTHER -> [ok |-> FALSE, val |-> Null]

\* JSON.stringify(meta)
JsonStringify(meta) == IF meta = "obj()" THEN "{}" ELSE "{a:1}"

\* the in-place mutation of the cached object o
PatchObject(kind, o, args) ==
  CASE kind = "updateAliasAndTableName" ->
         [o EXCEPT !.title = args.title, !.table_name = args.table_name]
    [] kind = "markAsMmTable" -> [o EXCEPT !.mm = args.isMm]
    [] kind = "updateOrder" -> [o EXCEPT !.order = args.order]
    [] kind = "setAsMm" -> [o EXCEPT !.mm = TRUE]
    [] kind = "updateMeta" ->
         [o EXCEPT !.meta = IF IsObject(args.meta) THEN args.meta
                            ELSE JsonParse(args.meta).val]

\* the fields metaUpdate(MODELS, {...}, tableId) is given
StoreFields(kind, row, args) ==
  CASE kind = "updateAliasAndTableName" ->
         [row EXCEPT !.title = args.title, !.table_name = args.table_name]
    [] kind = "markAsMmTable" -> [row EXCEPT !.mm = args.isMm]
    [] kind = "updateOrder" -> [row EXCEPT !.order = args.order]
    [] kind = "setAsMm" -> [row EXCEPT !.mm = TRUE]
    [] kind = "updateMeta" ->
         [row EXCEPT !.meta = IF IsObject(args.meta) THEN JsonStringify(args.meta)
                              ELSE args.meta]

\* mutant: without a cached object the update returns early
UpdateStore_onlyIfCached(w, c) ==
  IF w.st.models[c.id] # NoRow /\ cacheGet(w, c.id) # NoRow
  THEN [w EXCEPT !.st.models[c.id] = StoreFields(c.kind, @, c.args)]
  ELSE w

\* ncMeta.metaUpdate(null, null, MODELS, fields, tableId)
UpdateStore(w, c) ==
  IF w.st.models[c.id] # NoRow
  THEN [w EXCEPT !.st.models[c.id] = StoreFields(c.kind, @, c.args)]
  ELSE w

\* mutant: on a parse error the given text becomes the cached meta
UpdateLoad_rawOnError(w, c) ==
  LET o == cacheGet(w, c.id)
  IN IF o = NoRow THEN [c EXCEPT !.pc = "metaUpdate"]
     ELSE IF c.kind = "updateMeta" /\ ~IsObject(c.args.meta) /\ ~JsonParse(c.args.meta).ok
          THEN [c EXCEPT !.pc = "cacheSet", !.o = [o EXCEPT !.meta = c.args.meta]]
          ELSE [c EXCEPT !.pc = "cacheSet", !.o = PatchObject(c.kind, o, c.args)]

\* const o = await NocoCache.get(key); if (o) { patch in place ... }; in
\* updateMeta a parse error inside the try leaves for the store update
UpdateLoad(w, c) ==
  LET o == cacheGet(w, c.id)
  IN IF o = NoRow THEN [c EXCEPT !.pc = "metaUpdate"]
     ELSE IF c.kind = "updateMeta" /\ ~IsObject(c.args.meta) /\ ~JsonParse(c.args.meta).ok
          THEN [c EXCEPT !.pc = "metaUpdate"]
          ELSE [c EXCEPT !.pc = "cacheSet", !.o = PatchObject(c.kind, o, c.args)]

UpdateCall(kind, id, args) ==
  [op |-> "update", kind |-> kind, id |-> id, args |-> args, pc |-> "cacheGet",
   o |-> NoRow]

UpdateStep(w, c) ==
  CASE c.pc = "cacheGet" -> [w |-> w, c |-> UpdateLoad(w, c)]
    [] c.pc = "cacheSet" ->
         [w |-> cacheSet(w, c.id, c.o), c |-> [c EXCEPT !.pc = "metaUpdate"]]
    [] c.pc = "metaUpdate" -> [w |-> UpdateStore(w, c), c |-> [c EXCEPT !.pc = "done"]]

\* a failing await: updateMeta's catch takes a failing NocoCache.set and goes
\* on with the store update; every other failure leaves the handler
UpdateCaught(c) == c.kind = "updateMeta" /\ c.pc = "cacheSet"

----------------------------------------------------------------------------
(* Specification SpecUpdate: the narrow updates of one Model, cached or    *)
(* not, with I/O failures at their awaits, and get in between.             *)

UpdateStore0 ==
  [models |-> [id \in ModelIds |->
                 IF id = Target THEN ModelRow(id, B1, "t1", "n1", 1) ELSE NoRow],
   columns |-> [c \in ColIds |-> NoRow],
   side |-> [c \in ColIds |-> NoRow],
   views |-> [v \in ViewIds |-> Null],
   audits |-> {},
   phys |-> <<"m1", "m2", "m3">>,
   nullsFirst |-> FALSE]

UpdateArgs(kind) ==
  CASE kind = "updateAliasAndTableName" ->
         {[title |-> t, table_name |-> n] : t \in {"t1", "tx", ""}, n \in {"nx", ""}}
    [] kind = "markAsMmTable" -> {[isMm |-> b] : b \in BOOLEAN}
    [] kind = "updateOrder" -> {[order |-> o] : o \in Orders}
    [] kind = "setAsMm" -> {[none |-> TRUE]}
    [] kind = "updateMeta" -> {[meta |-> m] : m \in {"{a:1}", "oops", "obj(a=1)"}}

InitUpdate ==
  /\ store = UpdateStore0
  /\ cache = EmptyCache
  /\ call = Idle
  /\ ret = [op |-> "none", arg |-> Null, val |-> NoRow, raised |-> Null]
  /\ hist = [atBegin |-> World, failPc |-> Null, fails |-> 0]
  /\ env = NoEnv

UGet(id) ==
  /\ call = Idle
  /\ LET r == Get(World, id)
     IN /\ SetWorld(r.w)
        /\ ret' = [op |-> "get", arg |-> id, val |-> r.ret, raised |-> Null]
  /\ UNCHANGED <<call, hist, env>>

\* lines 564-569: the validation of updateAliasAndTableName comes first
UpdateInvalid(kind, args) ==
  kind = "updateAliasAndTableName" /\ (args.title = "" \/ args.table_name = "")

UpdateBegin(kind, id, args) ==
  /\ call = Idle
  /\ hist' = [hist EXCEPT !.atBegin = World, !.failPc = Null]
  /\ IF UpdateInvalid(kind, args)
     THEN /\ ret' = [op |-> "update", arg |-> <<kind, id, args>>, val |-> NoRow,
                     raised |-> "badRequest"]
          /\ UNCHANGED call
     ELSE /\ call' = UpdateCall(kind, id, args)
          /\ UNCHANGED ret
  /\ UNCHANGED <<store, cache, env>>

UpdateNext ==
  /\ call.op = "update"
  /\ LET n == UpdateStep(World, call)
     IN /\ SetWorld(n.w)
        /\ IF n.c.pc = "done"
           THEN /\ call' = Idle
                /\ ret' = [op |-> "update", arg |-> <<call.kind, call.id, call.args>>,
                           val |-> NoRow, raised |-> Null]
           ELSE /\ call' = n.c
                /\ UNCHANGED ret
  /\ UNCHANGED <<hist, env>>

UpdateFail ==
  /\ call.op = "update"
  /\ hist.fails < MaxFails
  /\ hist' = [hist EXCEPT !.fails = @ + 1, !.failPc = call.pc]
  /\ IF UpdateCaught(call)
     THEN /\ call' = [call EXCEPT !.pc = "metaUpdate"]
          /\ UNCHANGED ret
     ELSE /\ call' = Idle
          /\ ret' = [op |-> "update", arg |-> <<call.kind, call.id, call.args>>,
                     val |-> NoRow, raised |-> "IOError"]
  /\ UNCHANGED <<store, cache, env>>

NextUpdate ==
  \/ UGet(Target)
  \/ \E kind \in UpdateKinds : \E args \in UpdateArgs(kind) : UpdateBegin(kind, Target, args)
  \/ UpdateNext
  \/ UpdateFail

SpecUpdate == InitUpdate /\ [][NextUpdate]_vars

----------------------------------------------------------------------------
(* Claims on the narrow updates, checked under SpecUpdate *)

WasCached == hist.atBegin.ca.obj[Target] # NoRow

UpdateReturned == call = Idle /\ ret.op = "update" /\ ret.raised = Null

ParseFailed(kind, args) ==
  kind = "updateMeta" /\ ~IsObject(args.meta) /\ ~JsonParse(args.meta).ok

C17_FailedUpdateIsSafe ==
  (call = Idle /\ ret.op = "update" /\ hist.failPc # Null) =>
    Get(World, Target).ret = ParseRow(store.models[Target])

\* C19: updateMeta with a text that cannot be parsed, while an object is
\* cached, raises nothing from the parse, leaves the cached object as it is
\* and updates the store with the given text; a failing store update is
\* raised to the caller
C19_ParseErrorIsDiscarded ==
  (/\ call = Idle /\ ret.op = "update" /\ ret.arg[1] = "updateMeta"
   /\ ParseFailed("updateMeta", ret.arg[3]) /\ WasCached) =>
    /\ cache = hist.atBegin.ca
    /\ hist.failPc = Null =>
         (ret.raised = Null /\ store.models[Target].meta = ret.arg[3].meta)
    /\ hist.failPc = "metaUpdate" =>
         (ret.raised = "IOError" /\ store = hist.atBegin.st)

C19_Witness ==
  /\ call = Idle /\ ret.op = "update" /\ ret.arg[1] = "updateMeta"
  /\ ret.arg[3].meta = "oops" /\ WasCached
  /\ hist.failPc = Null /\ ret.raised = Null
  /\ store.models[Target].meta = "oops"
  /\ cache.obj[Target].meta = "obj()"

----------------------------------------------------------------------------
(* Claims on the cascade of delete, checked under SpecDelete *)

\* the Model that owns column c
OwnerOf(c) == DeleteStore(FALSE).columns[c].fk_model_id

\* every delete begun so far had this force
AllRuns(force) == hist.inst # NoRow /\ hist.sameForce /\ hist.force = force

\* C18: after delete(force = true) of Model M has returned, the store holds
\* no relation side-options row whose related target is M; when those rows
\* are about to be deleted, the cache entries of the columns they belong to
\* have been evicted; with force = false the side rows of other Models'
\* columns stay as they were
C18_ForceRemovesRelations ==
  /\ (call = Idle /\ ret.op = "delete" /\ ret.raised = Null /\ AllRuns(TRUE)) =>
       LeftOverColumns(World, hist.inst) = <<>>
  /\ (call.op = "delete" /\ call.pc = "forceRows") =>
       \A c \in Range(LeftOverColumns(World, call.inst)) : c \notin cache.opt
  /\ AllRuns(FALSE) =>
       \A c \in ColIds : OwnerOf(c) # Target =>
         store.side[c] = DeleteStore(FALSE).side[c]

\* a forced delete has returned; the relation row of another Model's column
\* that pointed to M was cached when the delete began, and is gone from the
\* store and from the cache, its column row still there
C18_Witness ==
  /\ call = Idle /\ ret.op = "delete" /\ ret.raised = Null /\ AllRuns(TRUE)
  /\ hist.preOpt = {"c3"}
  /\ store.side["c3"] = NoRow
  /\ "c3" \notin cache.opt
  /\ store.columns["c3"] # NoRow

AfterAudit == {"getViews", "views", "getColumns", "colOptRows", "colOptCache",
               "force", "forceCache", "forceRows", "colCache", "colRows",
               "modelCache", "modelRow", "aliasId", "aliasTitle"}
AfterViews == AfterAudit \ {"getViews", "views"}
AfterOptions == AfterViews \ {"getColumns", "colOptRows", "colOptCache"}
AfterColumns == {"modelCache", "modelRow", "aliasId", "aliasTitle"}
AfterModel == {"aliasId", "aliasTitle"}

ViewsOf(m) == {v \in ViewIds : store.views[v] = m}
ColumnsOf(m) == {c \in ColIds : store.columns[c] # NoRow /\ store.columns[c].fk_model_id = m}
OptionsOf(m) == {c \in ColIds : OwnerOf(c) = m /\ store.side[c] # NoRow}

\* C20: in every run of delete() the steps leave the store in their order
\* (comments, Views, side-option rows of the Columns, Column rows, Model
\* row), and in no state of the store is a Model row absent while a View, a
\* Column row or a side-option row of one of its Columns is present
C20_ModelRowRemovedLast ==
  /\ \A m \in ModelIds : store.models[m] = NoRow =>
       (ViewsOf(m) = {} /\ ColumnsOf(m) = {} /\ OptionsOf(m) = {})
  /\ call.op = "delete" =>
       LET m == call.inst.id
       IN /\ call.pc \in AfterAudit => m \notin store.audits
          /\ call.pc \in AfterViews => ViewsOf(m) = {}
          /\ call.pc \in AfterOptions => OptionsOf(m) = {}
          /\ call.pc \in AfterColumns => ColumnsOf(m) = {}
          /\ call.pc \in AfterModel => store.models[m] = NoRow

\* the first delete is about to remove the Model row: the Views, the side
\* rows and the Column rows of the Model are gone, the row itself is there
C20_Witness ==
  /\ call.op = "delete" /\ call.pc = "modelRow" /\ hist.runs = 0 /\ hist.fails = 0
  /\ store.models[Target] # NoRow
  /\ ViewsOf(Target) = {} /\ ColumnsOf(Target) = {} /\ OptionsOf(Target) = {}
  /\ ColumnsOf("m2") # {}

----------------------------------------------------------------------------
(* The getters primaryKey and displayValue of a Model instance.            *)

MaxCols == 3

\* this.columns of an instance whose columns were never hydrated
NotHydrated == <<[id |-> "undefined"]>>
\* the undefined an array gives for find without a match or an index outside
NoColumn == [id |-> "undefined"]

\* columns.find((c) => c[flag])
Find(columns, flag) ==
  IF \E i \in 1..Len(columns) : columns[i][flag]
  THEN columns[CHOOSE i \in 1..Len(columns) :
                 columns[i][flag] /\ \A j \in 1..(i - 1) : ~columns[j][flag]]
  ELSE NoColumn

\* columns.indexOf(x), counted from 0; -1 when x is no element
IndexOf(columns, x) ==
  IF \E i \in 1..Len(columns) : columns[i] = x
  THEN (CHOOSE i \in 1..Len(columns) :
          columns[i] = x /\ \A j \in 1..(i - 1) : columns[j] # x) - 1
  ELSE -1

\* columns[i], counted from 0
At(columns, i) == IF i + 1 \in 1..Len(columns) THEN columns[i + 1] ELSE NoColumn

\* get primaryKey()
primaryKey(m) == IF m.columns = NotHydrated THEN NoRow ELSE Find(m.columns, "pk")

\* mutant: the column after the primary key, without the wrap to the first
displayValue_noWrap(m) ==
  IF m.columns = NotHydrated THEN NoRow
  ELSE LET pCol == Find(m.columns, "pv")
           pkIndex == IndexOf(m.columns, primaryKey(m))
       IN IF pCol # NoColumn THEN pCol
          ELSE IF m.mm THEN At(m.columns, 0)
          ELSE At(m.columns, pkIndex + 1)

\* get displayValue()
displayValue(m) ==
  IF m.columns = NotHydrated THEN NoRow
  ELSE LET pCol == Find(m.columns, "pv")
           pkIndex == IndexOf(m.columns, primaryKey(m))
       IN IF pCol # NoColumn THEN pCol
          ELSE IF m.mm THEN At(m.columns, 0)
          ELSE IF pkIndex < Len(m.columns) - 1 THEN At(m.columns, pkIndex + 1)
          ELSE At(m.columns, 0)

----------------------------------------------------------------------------
(* Specification SpecDisplay: the getters on every instance with up to     *)
(* MaxCols columns, hydrated or not, many-to-many or not.                  *)

FlagRows == [pk : BOOLEAN, pv : BOOLEAN]

\* the column lists of n columns: ids by position, every flagging
ColumnLists(n) ==
  {[i \in 1..n |-> [id |-> ColSeq[i], pk |-> f[i].pk, pv |-> f[i].pv]] :
     f \in [1..n -> FlagRows]}

Instances ==
  {[kind |-> "model", columns |-> cs, mm |-> mm] :
     cs \in {NotHydrated} \cup UNION {ColumnLists(n) : n \in 0..MaxCols},
     mm \in BOOLEAN}

InitDisplay ==
  /\ store = UpdateStore0
  /\ cache = EmptyCache
  /\ call = Idle
  /\ ret = [op |-> "none", arg |-> Null, val |-> NoRow, raised |-> Null]
  /\ hist = [none |-> TRUE]
  /\ env \in Instances

GPrimaryKey ==
  /\ ret' = [op |-> "primaryKey", arg |-> Null, val |-> primaryKey(env), raised |-> Null]
  /\ UNCHANGED <<store, cache, call, hist, env>>

GDisplayValue ==
  /\ ret' = [op |-> "displayValue", arg |-> Null, val |-> displayValue(env),
             raised |-> Null]
  /\ UNCHANGED <<store, cache, call, hist, env>>

NextDisplay == GPrimaryKey \/ GDisplayValue

SpecDisplay == InitDisplay /\ [][NextDisplay]_vars

\* positions (from 1) of the columns of the instance with the flag
Flagged1(flag) == {i \in 1..Len(env.columns) : env.columns[i][flag]}
Lowest(S) == CHOOSE i \in S : \A j \in S : i <= j

\* C21: displayValue gives null for an instance without hydrated columns;
\* else the column flagged primary-value when there is one; else, for a
\* many-to-many Model, the first column; else the column right after the
\* primary-key column, or the first column when the primary-key column is the
\* last one; a list without a primary-key column gives its first column, and
\* where the list is empty there is no first column to give
C21_DisplayValue ==
  ret.op = "displayValue" =>
    IF env.columns = NotHydrated THEN ret.val = NoRow
    ELSE LET cols == env.columns
             pvs == Flagged1("pv")
             pks == Flagged1("pk")
             first == IF cols = <<>> THEN NoColumn ELSE cols[1]
         IN /\ pvs # {} => ret.val = cols[Lowest(pvs)]
            /\ (pvs = {} /\ env.mm) => ret.val = first
            /\ (pvs = {} /\ ~env.mm /\ pks # {} /\ Lowest(pks) < Len(cols)) =>
                 ret.val = cols[Lowest(pks) + 1]
            /\ (pvs = {} /\ ~env.mm /\ pks # {} /\ Lowest(pks) = Len(cols)) =>
                 ret.val = first
            /\ (pvs = {} /\ ~env.mm /\ pks = {}) => ret.val = first

\* no primary-value column, the primary key last of several columns: the
\* first column is given
C21_Witness ==
  /\ ret.op = "displayValue"
  /\ env.columns # NotHydrated /\ Len(env.columns) = MaxCols
  /\ Flagged1("pv") = {} /\ ~env.mm
  /\ Flagged1("pk") = {Len(env.columns)}
  /\ ret.val = env.columns[1]

----------------------------------------------------------------------------
(* Model.get, one step per await: NocoCache.get, ncMeta.metaGet2,          *)
(* NocoCache.set.                                                          *)

GetCall(id) == [kind |-> "get", id |-> id, pc |-> "cacheGet", data |-> NoRow]

GetStep(w, g) ==
  CASE g.pc = "cacheGet" ->
         LET modelData == cacheGet(w, g.id)
         IN [w |-> w,
             g |-> [g EXCEPT !.data = modelData,
                             !.pc = IF modelData # NoRow THEN "done" ELSE "metaGet"]]
    [] g.pc = "metaGet" ->
         LET modelData == metaGet2(w, g.id)
         IN [w |-> w,
             g |-> IF modelData # NoRow
                   THEN [g EXCEPT !.data = ParseRow(modelData), !.pc = "cacheSet"]
                   ELSE [g EXCEPT !.pc = "done"]]
    [] g.pc = "cacheSet" ->
         [w |-> cacheSet(w, g.id, g.data), g |-> [g EXCEPT !.pc = "done"]]

----------------------------------------------------------------------------
(* Specification SpecRace: a get(M.id) running at the same time as one     *)
(* writer on M, a delete or a narrow update; the awaits of the two         *)
(* interleave freely. call is the writer, env the reader.                  *)

MaxGets == 2
MaxWrites == 1

InitRace ==
  /\ store = DeleteStore(FALSE)
  /\ cache \in {EmptyCache, Get([st |-> DeleteStore(FALSE), ca |-> EmptyCache], Target).w.ca}
  /\ call = Idle
  /\ ret = [op |-> "none", arg |-> Null, val |-> NoRow, raised |-> Null]
  /\ hist = [gets |-> 0, writes |-> 0, deletes |-> 0, updates |-> 0,
             overlap |-> FALSE, badMeta |-> FALSE]
  /\ env = NoEnv

RGetBegin ==
  /\ env = NoEnv
  /\ hist.gets < MaxGets
  /\ env' = GetCall(Target)
  /\ hist' = [hist EXCEPT !.gets = @ + 1, !.overlap = @ \/ call # Idle]
  /\ UNCHANGED <<store, cache, call, ret>>

RGetNext ==
  /\ env # NoEnv
  /\ LET n == GetStep(World, env)
     IN /\ SetWorld(n.w)
        /\ IF n.g.pc = "done"
           THEN /\ env' = NoEnv
                /\ ret' = [op |-> "get", arg |-> env.id, val |-> n.g.data, raised |-> Null]
           ELSE /\ env' = n.g
                /\ UNCHANGED ret
  /\ UNCHANGED <<call, hist>>

RDeleteBegin(force) ==
  /\ call = Idle
  /\ hist.writes < MaxWrites
  /\ store.models[Target] # NoRow
  /\ call' = DeleteCall(InstOf(store.models[Target]), force)
  /\ hist' = [hist EXCEPT !.writes = @ + 1, !.overlap = @ \/ env # NoEnv]
  /\ UNCHANGED <<store, cache, ret, env>>

RDeleteNext ==
  /\ call.op = "delete"
  /\ LET n == DeleteStep(World, call)
     IN /\ SetWorld(n.w)
        /\ IF n.c.pc = "done"
           THEN /\ call' = Idle
                /\ ret' = DeleteReturn(call)
                /\ hist' = [hist EXCEPT !.deletes = @ + 1]
           ELSE /\ call' = n.c
                /\ UNCHANGED <<ret, hist>>
  /\ UNCHANGED env

RUpdateBegin(kind, args) ==
  /\ call = Idle
  /\ hist.writes < MaxWrites
  /\ ~UpdateInvalid(kind, args)
  /\ call' = UpdateCall(kind, Target, args)
  /\ hist' = [hist EXCEPT !.writes = @ + 1, !.overlap = @ \/ env # NoEnv,
                          !.badMeta = @ \/ ParseFailed(kind, args)]
  /\ UNCHANGED <<store, cache, ret, env>>

RUpdateNext ==
  /\ call.op = "update"
  /\ LET n == UpdateStep(World, call)
     IN /\ SetWorld(n.w)
        /\ IF n.c.pc = "done"
           THEN /\ call' = Idle
                /\ ret' = [op |-> "update", arg |-> <<call.kind, call.id, call.args>>,
                           val |-> NoRow, raised |-> Null]
                /\ hist' = [hist EXCEPT !.updates = @ + 1]
           ELSE /\ call' = n.c
                /\ UNCHANGED <<ret, hist>>
  /\ UNCHANGED env

NextRace ==
  \/ RGetBegin
  \/ RGetNext
  \/ \E force \in BOOLEAN : RDeleteBegin(force)
  \/ RDeleteNext
  \/ \E kind \in UpdateKinds : \E args \in UpdateArgs(kind) : RUpdateBegin(kind, args)
  \/ RUpdateNext

SpecRace == InitRace /\ [][NextRace]_vars

\* a get and a writer were in flight together, and both have returned
BothFinished == call = Idle /\ env = NoEnv /\ hist.overlap

\* C22: a get(M.id) that runs at the same time as delete() of M does not bring
\* M back into the cache: once both have finished, no object is cached for M
\* and a later get(M.id) returns absent
C22_GetCannotResurrect ==
  (BothFinished /\ hist.deletes >= 1) =>
    /\ cache.obj[Target] = NoRow
    /\ Get(World, Target).ret = NoRow

\* C23: a get(id) that runs at the same time as a narrow update of the same
\* Model leaves no stale cache: once both have finished, the cached object,
\* if there is one, agrees with the store row on title, table_name, order,
\* mm and meta
C23_GetLeavesNoStaleCache ==
  (/\ BothFinished /\ hist.updates >= 1 /\ hist.deletes = 0 /\ ~hist.badMeta
   /\ cache.obj[Target] # NoRow) =>
    cache.obj[Target] = ParseRow(store.models[Target])

----------------------------------------------------------------------------
(* Specification SpecPvRace: two updatePrimaryColumn calls on one Model    *)
(* with different target columns, their awaits interleaving freely. call   *)
(* is the first caller, env the second.                                    *)

InitPvRace ==
  /\ \E pvs \in {{}} \cup {{c} : c \in PvCols} : store = PvStore(pvs)
  /\ cache \in {EmptyCache, GetWithInfo([st |-> store, ca |-> EmptyCache], "m1").w.ca}
  /\ call = Idle
  /\ ret = [op |-> "none", arg |-> Null, val |-> FALSE, raised |-> Null]
  /\ hist = [first |-> Null, second |-> Null, returned |-> 0]
  /\ env = NoEnv

PvFirstBegin(columnId) ==
  /\ call = Idle /\ hist.first = Null
  /\ columnId # hist.second
  /\ call' = PvCall("m1", columnId)
  /\ hist' = [hist EXCEPT !.first = columnId]
  /\ UNCHANGED <<store, cache, ret, env>>

PvSecondBegin(columnId) ==
  /\ env = NoEnv /\ hist.second = Null
  /\ columnId # hist.first
  /\ env' = PvCall("m1", columnId)
  /\ hist' = [hist EXCEPT !.second = columnId]
  /\ UNCHANGED <<store, cache, ret, call>>

PvFirstNext ==
  /\ call # Idle
  /\ LET n == PvStep(World, call)
     IN /\ SetWorld(n.w)
        /\ IF n.c.pc \in {"done", "raise"}
           THEN /\ call' = Idle
                /\ ret' = [op |-> "updatePv", arg |-> call.columnId,
                           val |-> n.raised = Null, raised |-> n.raised]
                /\ hist' = [hist EXCEPT !.returned = @ + 1]
           ELSE /\ call' = n.c
                /\ UNCHANGED <<ret, hist>>
  /\ UNCHANGED env

PvSecondNext ==
  /\ env # NoEnv
  /\ LET n == PvStep(World, env)
     IN /\ SetWorld(n.w)
        /\ IF n.c.pc \in {"done", "raise"}
           THEN /\ env' = NoEnv
                /\ ret' = [op |-> "updatePv", arg |-> env.columnId,
                           val |-> n.raised = Null, raised |-> n.raised]
                /\ hist' = [hist EXCEPT !.returned = @ + 1]
           ELSE /\ env' = n.c
                /\ UNCHANGED <<ret, hist>>
  /\ UNCHANGED call

NextPvRace ==
  \/ \E columnId \in PvCols : PvFirstBegin(columnId)
  \/ \E columnId \in PvCols : PvSecondBegin(columnId)
  \/ PvFirstNext
  \/ PvSecondNext

SpecPvRace == InitPvRace /\ [][NextPvRace]_vars

\* C24: two updatePrimaryColumn calls on one Model with different target
\* columns, interleaved at their awaits, leave at most one column of the
\* Model flagged primary-value in the store once both have finished
C24_AtMostOnePvAfterRace ==
  (call = Idle /\ env = NoEnv /\ hist.returned = 2) =>
    Cardinality(Flagged(store, "m1")) <= 1

----------------------------------------------------------------------------
(* Specification SpecSeq: handlers run one after the other, each to its    *)
(* return, without failures: insert, list, getByAliasOrId,                 *)
(* updateAliasAndTableName and delete on the Models of one project.        *)

\* insert run from c to its return; ids are never handed out twice
RECURSIVE InsertRun(_, _, _)
InsertRun(w, c, id) ==
  IF c.pc = "done" THEN w
  ELSE LET n == InsertStep(w, c, [order |-> 1, id |-> id,
                                  view |-> FirstOf(ViewSeq, FreeViewIds(w)),
                                  col |-> FirstOf(ColSeq, FreeColIds(w))])
       IN InsertRun(n.w, n.c, id)

SeqTitles == {"t1", "tx"}

\* the titles of the Models the store holds
TitlesInUse == {store.models[id].title : id \in ModelIds \ FreeModelIds(World)}

InitSeq ==
  /\ \E withM1 \in BOOLEAN :
       /\ store = InsertStore(withM1)
       /\ hist = [used |-> IF withM1 THEN {"m1"} ELSE {}, others |-> FALSE]
  /\ cache = EmptyCache
  /\ call = Idle
  /\ ret = [op |-> "none", arg |-> Null, val |-> NoRow, raised |-> Null]
  /\ env = NoEnv

\* insert of a Model with a title no stored Model has, under base b
SInsert(b, title) ==
  /\ ModelIds \ hist.used # {} /\ FreeViewIds(World) # {}
  /\ title \notin TitlesInUse
  /\ LET id == FirstOf(store.phys, ModelIds \ hist.used)
         c == InsertCall(P1, b, [title |-> title, table_name |-> title, order |-> 1,
                                 columns |-> <<>>])
     IN /\ SetWorld(InsertRun(World, c, id))
        /\ ret' = [op |-> "insert", arg |-> <<P1, b>>, val |-> id, raised |-> Null]
        /\ hist' = [hist EXCEPT !.used = @ \cup {id}]
  /\ UNCHANGED <<call, env>>

SList(p, b) ==
  /\ LET r == List(World, p, b)
     IN /\ SetWorld(r.w)
        /\ ret' = [op |-> "list", arg |-> <<p, b>>, val |-> r.ret, raised |-> r.raised]
  /\ UNCHANGED <<call, hist, env>>

SGetByAliasOrId(p, b, a) ==
  /\ LET r == GetByAliasOrId(World, p, b, a)
     IN /\ SetWorld(r.w)
        /\ ret' = [op |-> "getByAliasOrId", arg |-> <<p, b, a>>, val |-> r.ret,
                   raised |-> Null]
  /\ hist' = [hist EXCEPT !.others = TRUE]
  /\ UNCHANGED <<call, env>>

\* the rename of a stored Model to a title no stored Model has
SUpdateAliasAndTableName(id, title) ==
  /\ store.models[id] # NoRow
  /\ title \notin TitlesInUse
  /\ LET r == UpdateAliasAndTableName(World, id, title, title)
     IN /\ SetWorld(r.w)
        /\ ret' = [op |-> "updateAliasAndTableName", arg |-> id, val |-> NoRow,
                   raised |-> r.raised]
  /\ hist' = [hist EXCEPT !.others = TRUE]
  /\ UNCHANGED <<call, env>>

\* delete on the instance a get of the stored Model gives
SDelete(id, force) ==
  /\ store.models[id] # NoRow
  /\ SetWorld(DeleteRun(World, DeleteCall(InstOf(store.models[id]), force)))
  /\ ret' = [op |-> "delete", arg |-> id, val |-> TRUE, raised |-> Null]
  /\ UNCHANGED <<call, hist, env>>

NextSeq ==
  \/ \E b \in {B1, Null}, title \in SeqTitles : SInsert(b, title)
  \/ SList(P1, B1)
  \/ \E b \in {B1, Null}, a \in SeqTitles \cup {"m1"} : SGetByAliasOrId(P1, b, a)
  \/ \E id \in ModelIds, title \in SeqTitles : SUpdateAliasAndTableName(id, title)
  \/ \E id \in ModelIds, force \in BOOLEAN : SDelete(id, force)

SpecSeq == InitSeq /\ [][NextSeq]_vars

\* C25: the alias-or-id indirection never goes stale: after any sequential
\* run of insert, getByAliasOrId, updateAliasAndTableName and delete,
\* getByAliasOrId(scope, a) gives a Model only if the store holds it within
\* the scope with id or current title a, and gives absent only if the store
\* holds no such Model
C25_AliasNeverStale ==
  \A b \in {B1, Null}, a \in SeqTitles \cup {"m1"} :
    LET r == GetByAliasOrId(World, P1, b, a).ret
    IN /\ r # NoRow =>
            /\ store.models[r.id] # NoRow
            /\ store.models[r.id].project_id = P1
            /\ (b = Null \/ store.models[r.id].base_id = b)
            /\ (r.id = a \/ store.models[r.id].title = a)
       /\ r = NoRow => AliasLookup(World, P1, b, a) = NoRow

\* C26: the cached Model list is complete: after any sequential run of
\* insert, list and delete without failures, list(P, B) gives exactly the
\* Models the store holds for the scope
C26_ListIsComplete ==
  ~hist.others =>
    LET r == List(World, P1, B1)
    IN r.raised = Null /\ ListIds(r.ret) = ScopeIds(World, P1, B1)

====
